---- MODULE Spec2Model ----
(***************************************************************************)
(* A model of darkrockmountain/gomail: the e-mail value object of package  *)
(* common (validation, sanitization, MIME serialization) and the raw SMTP  *)
(* transport of providers/smtp, whose SendEmail drives net/smtp.           *)
(*                                                                         *)
(* Strings are sequences of chunks.  User supplied data is one character   *)
(* per chunk; text written by the program itself ("From: ", a boundary     *)
(* prefix) is one chunk per literal.                                       *)
(***************************************************************************)
EXTENDS Integers, Sequences, FiniteSets, TLC

(***************************************************************************)
(* Bounds of the model.                                                    *)
(***************************************************************************)
\* total number of raw addresses over the To, CC and BCC lists of a message
MaxRcpts == 2
\* number of 334 challenges a server issues during one AUTH exchange
MaxChallenges == 1

(***************************************************************************)
(* Characters and string helpers.                                          *)
(***************************************************************************)
Lower == {"a","b","c","d","e","f","g","h","i","j","k","l","m",
          "n","o","p","q","r","s","t","u","v","w","x","y","z"}
Upper == {"A","B","C","D","E","F","G","H","I","J","K","L","M",
          "N","O","P","Q","R","S","T","U","V","W","X","Y","Z"}
Digit == {"0","1","2","3","4","5","6","7","8","9"}
Letter == Lower \cup Upper
\* the white space strings.TrimSpace removes
Space == {" ", "\t", "\n", "\r"}

EmptyStr == << >>

RECURSIVE TrimLeft(_)
TrimLeft(s) ==
    IF s # << >> /\ Head(s) \in Space THEN TrimLeft(Tail(s)) ELSE s

RECURSIVE TrimRight(_)
TrimRight(s) ==
    IF s # << >> /\ s[Len(s)] \in Space
    THEN TrimRight(SubSeq(s, 1, Len(s) - 1)) ELSE s

TrimSpace(s) == TrimRight(TrimLeft(s))

RECURSIVE Flatten(_)
Flatten(ss) == IF ss = << >> THEN << >> ELSE Head(ss) \o Flatten(Tail(ss))

\* a join that writes no separator
JoinConcat(list, sep) == Flatten(list)

\* strings.Join(list, sep)
RECURSIVE Join(_, _)
Join(list, sep) ==
    IF list = << >> THEN << >>
    ELSE IF Len(list) = 1 THEN list[1]
    ELSE list[1] \o sep \o Join(Tail(list), sep)

\* strings.Split(s, sep) for a one-chunk separator
RECURSIVE SplitAcc(_, _, _)
SplitAcc(s, sep, cur) ==
    IF s = << >> THEN <<cur>>
    ELSE IF Head(s) = sep THEN <<cur>> \o SplitAcc(Tail(s), sep, << >>)
    ELSE SplitAcc(Tail(s), sep, Append(cur, Head(s)))

Split(s, sep) == SplitAcc(s, sep, << >>)

Range(f) == {f[i] : i \in DOMAIN f}

(***************************************************************************)
(* common/validation.go                                                    *)
(***************************************************************************)
LocalChars == Letter \cup Digit \cup {".", "_", "%", "+", "-"}
DomainChars == Letter \cup Digit \cup {".", "_", "-"}

\* ^[a-zA-Z0-9._%+\-]+@[a-zA-Z0-9._\-]+\.[a-zA-Z]{2,}$
emailRegex(s) ==
    \E at \in 1..Len(s) :
        /\ s[at] = "@"
        /\ at > 1
        /\ \A i \in 1..(at - 1) : s[i] \in LocalChars
        /\ \E dot \in (at + 2)..Len(s) :
              /\ s[dot] = "."
              /\ \A i \in (at + 1)..(dot - 1) : s[i] \in DomainChars
              /\ Len(s) - dot >= 2
              /\ \A i \in (dot + 1)..Len(s) : s[i] \in Letter

\* a validator that returns the address as it was given
ValidateEmailUntrimmed(email) ==
    LET trimmed == TrimSpace(email)
    IN  IF ~emailRegex(trimmed) THEN EmptyStr ELSE email

\* lines 13-19
ValidateEmail(email) ==
    LET trimmed == TrimSpace(email)
    IN  IF ~emailRegex(trimmed) THEN EmptyStr ELSE trimmed

\* a validator of lists that returns every valid address once
RECURSIVE ValidateEmailSliceUnique(_)
ValidateEmailSliceUnique(emails) ==
    IF emails = << >> THEN << >>
    ELSE LET validEmail == ValidateEmail(Head(emails))
             rest == ValidateEmailSliceUnique(Tail(emails))
         IN  IF validEmail # EmptyStr /\ \A k \in 1..Len(rest) : rest[k] # validEmail
             THEN <<validEmail>> \o rest
             ELSE rest

\* lines 23-31
RECURSIVE ValidateEmailSlice(_)
ValidateEmailSlice(emails) ==
    IF emails = << >> THEN << >>
    ELSE LET validEmail == ValidateEmail(Head(emails))
         IN  IF validEmail # EmptyStr
             THEN <<validEmail>> \o ValidateEmailSlice(Tail(emails))
             ELSE ValidateEmailSlice(Tail(emails))

(***************************************************************************)
(* package sanitizer                                                       *)
(***************************************************************************)
\* an escape that leaves the two quotes as they are
EscapeCharNoQuote(ch) ==
    CASE ch = "<" -> <<"&", "l", "t", ";">>
      [] ch = ">" -> <<"&", "g", "t", ";">>
      [] ch = "&" -> <<"&", "a", "m", "p", ";">>
      [] OTHER -> <<ch>>

\* html.EscapeString
EscapeChar(ch) ==
    CASE ch = "<" -> <<"&", "l", "t", ";">>
      [] ch = ">" -> <<"&", "g", "t", ";">>
      [] ch = "&" -> <<"&", "a", "m", "p", ";">>
      [] ch = "'" -> <<"&", "#", "3", "9", ";">>
      [] ch = "\"" -> <<"&", "#", "3", "4", ";">>
      [] OTHER -> <<ch>>

RECURSIVE EscapeString(_)
EscapeString(s) ==
    IF s = << >> THEN << >> ELSE EscapeChar(Head(s)) \o EscapeString(Tail(s))

DefaultTextSanitize(text) == EscapeString(TrimSpace(text))

NonSanitize(text) == text

\* An HTML body is a sequence of chunks: a tag is one chunk, text is one
\* character per chunk.  The allow-list policy drops a script element with
\* its content, drops every other tag that is not on the list, strips event
\* handler attributes, and escapes text.
AllowedTags == {"<b>", "</b>", "<p>", "</p>", "<div>", "</div>"}
StrippedAttrs == [t \in {"<p onclick=x>"} |-> "<p>"]
Tags == AllowedTags \cup DOMAIN StrippedAttrs \cup
        {"<script>", "</script>", "<i>", "</i>", "<a href=javascript:x>", "</a>"}
IsTag(ch) == ch \in Tags

RECURSIVE HtmlPolicy(_, _)
HtmlPolicy(s, inScript) ==
    IF s = << >> THEN << >>
    ELSE LET ch == Head(s) IN
         IF inScript
         THEN HtmlPolicy(Tail(s), ch # "</script>")
         ELSE IF ch = "<script>" THEN HtmlPolicy(Tail(s), TRUE)
         ELSE IF ch \in AllowedTags THEN <<ch>> \o HtmlPolicy(Tail(s), FALSE)
         ELSE IF ch \in DOMAIN StrippedAttrs
              THEN <<StrippedAttrs[ch]>> \o HtmlPolicy(Tail(s), FALSE)
         ELSE IF IsTag(ch) THEN HtmlPolicy(Tail(s), FALSE)
         ELSE EscapeChar(ch) \o HtmlPolicy(Tail(s), FALSE)

DefaultHtmlSanitize(text) == HtmlPolicy(text, FALSE)

\* a sanitizer value is the name of one of the strategies; "nil" is unset
Sanitize(name, text) ==
    CASE name = "text" -> DefaultTextSanitize(text)
      [] name = "html" -> DefaultHtmlSanitize(text)
      [] name = "non"  -> NonSanitize(text)

(***************************************************************************)
(* common/email.go: the message and its read accessors                     *)
(***************************************************************************)
DefaultMaxAttachmentSize == 26214400

NilMessage == [isNil |-> TRUE]

EmailMessage(from, to, cc, bcc, replyTo, subject, text, html, attachments) ==
    [isNil |-> FALSE, from |-> from, to |-> to, cc |-> cc, bcc |-> bcc,
     replyTo |-> replyTo, subject |-> subject, text |-> text, html |-> html,
     attachments |-> attachments,
     maxAttachmentSize |-> DefaultMaxAttachmentSize,
     textSanitizer |-> "nil", htmlSanitizer |-> "nil"]

GetFrom(e) == IF e.isNil THEN EmptyStr ELSE ValidateEmail(e.from)
GetTo(e) == IF e.isNil THEN << >> ELSE ValidateEmailSlice(e.to)
GetCC(e) == IF e.isNil THEN << >> ELSE ValidateEmailSlice(e.cc)
GetBCC(e) == IF e.isNil THEN << >> ELSE ValidateEmailSlice(e.bcc)
GetReplyTo(e) == IF e.isNil THEN EmptyStr ELSE ValidateEmail(e.replyTo)

GetSubject(e) ==
    IF e.isNil THEN EmptyStr
    ELSE IF e.textSanitizer # "nil" THEN Sanitize(e.textSanitizer, e.subject)
    ELSE DefaultTextSanitize(e.subject)

GetText(e) ==
    IF e.isNil THEN EmptyStr
    ELSE IF e.textSanitizer # "nil" THEN Sanitize(e.textSanitizer, e.text)
    ELSE DefaultTextSanitize(e.text)

GetHTML(e) ==
    IF e.isNil THEN EmptyStr
    ELSE IF e.htmlSanitizer # "nil" THEN Sanitize(e.htmlSanitizer, e.html)
    ELSE DefaultHtmlSanitize(e.html)

RECURSIVE FilterBySize(_, _)
FilterBySize(atts, limit) ==
    IF atts = << >> THEN << >>
    ELSE IF Len(Head(atts).content) <= limit
         THEN <<Head(atts)>> \o FilterBySize(Tail(atts), limit)
         ELSE FilterBySize(Tail(atts), limit)

GetAttachments(e) ==
    IF e.isNil THEN << >>
    ELSE IF e.maxAttachmentSize < 0 THEN e.attachments
    ELSE FilterBySize(e.attachments, e.maxAttachmentSize)

(***************************************************************************)
(* common/attachment.go and common/utils.go                                *)
(***************************************************************************)
Attachment(filename, content) == [filename |-> filename, content |-> content]

GetFilename(a) == DefaultTextSanitize(a.filename)

Base64Alphabet ==
    <<"A","B","C","D","E","F","G","H","I","J","K","L","M",
      "N","O","P","Q","R","S","T","U","V","W","X","Y","Z",
      "a","b","c","d","e","f","g","h","i","j","k","l","m",
      "n","o","p","q","r","s","t","u","v","w","x","y","z",
      "0","1","2","3","4","5","6","7","8","9","+","/">>

B64(n) == Base64Alphabet[n + 1]

\* base64.StdEncoding.Encode: three bytes to four characters, "=" padding
RECURSIVE Base64Encode(_)
Base64Encode(b) ==
    IF b = << >> THEN << >>
    ELSE IF Len(b) = 1
    THEN <<B64(b[1] \div 4), B64((b[1] % 4) * 16), "=", "=">>
    ELSE IF Len(b) = 2
    THEN <<B64(b[1] \div 4), B64((b[1] % 4) * 16 + b[2] \div 16),
           B64((b[2] % 16) * 4), "=">>
    ELSE <<B64(b[1] \div 4), B64((b[1] % 4) * 16 + b[2] \div 16),
           B64((b[2] % 16) * 4 + b[3] \div 64), B64(b[3] % 64)>>
         \o Base64Encode(SubSeq(b, 4, Len(b)))

GetBase64Content(a) ==
    IF Len(a.content) = 0 THEN << >> ELSE Base64Encode(a.content)

ToLowerChar(ch) ==
    CASE ch = "T" -> "t" [] ch = "X" -> "x" [] ch = "P" -> "p"
      [] ch = "D" -> "d" [] ch = "F" -> "f" [] ch = "N" -> "n"
      [] ch = "G" -> "g" [] OTHER -> ch

ToLower(s) == [i \in 1..Len(s) |-> ToLowerChar(s[i])]

\* filepath.Ext: the suffix beginning at the final dot of the final element
RECURSIVE Ext(_)
Ext(s) ==
    IF s = << >> \/ s[Len(s)] = "/" THEN << >>
    ELSE IF s[Len(s)] = "." THEN <<".">>
    ELSE LET e == Ext(SubSeq(s, 1, Len(s) - 1))
         IN  IF e = << >> THEN << >> ELSE Append(e, s[Len(s)])

\* mime.TypeByExtension, the entries the attachments of the model can hit
TypeByExtension(ext) ==
    CASE ext = <<".", "t", "x", "t">> -> <<"text/plain; charset=utf-8">>
      [] ext = <<".", "p", "d", "f">> -> <<"application/pdf">>
      [] ext = <<".", "p", "n", "g">> -> <<"image/png">>
      [] OTHER -> << >>

GetMimeType(filename) == TypeByExtension(ToLower(Ext(filename)))

(***************************************************************************)
(* common/email.go: BuildMimeMessage.  The result is the sequence of the   *)
(* lines written, each line a string; WriteString ends every line of the   *)
(* program's own with CRLF, which Bytes renders.                           *)
(***************************************************************************)
\* fmt.Sprintf("%d", n) for the time stamps of the model
Itoa(n) == <<Base64Alphabet[53 + n]>>

AttachmentPart(attachment, mixedBoundary) ==
    LET fileName == GetFilename(attachment)
        mimeType == GetMimeType(fileName)
    IN  << <<"--">> \o mixedBoundary,
           <<"Content-Type: ">> \o mimeType,
           <<"Content-Transfer-Encoding: base64">>,
           <<"Content-Disposition: attachment; filename=\"">> \o fileName \o <<"\"">>,
           << >>,
           GetBase64Content(attachment) >>

\* a serializer that writes the attachment parts last attachment first
RECURSIVE AttachmentPartsReversed(_, _)
AttachmentPartsReversed(attachments, mixedBoundary) ==
    IF attachments = << >> THEN << >>
    ELSE AttachmentPartsReversed(Tail(attachments), mixedBoundary)
         \o AttachmentPart(Head(attachments), mixedBoundary)

\* lines 649-659: one part per attachment, in the order of the list
RECURSIVE AttachmentParts(_, _)
AttachmentParts(attachments, mixedBoundary) ==
    IF attachments = << >> THEN << >>
    ELSE AttachmentPart(Head(attachments), mixedBoundary)
         \o AttachmentParts(Tail(attachments), mixedBoundary)

\* lines 588-608: the basic headers
MimeHeadersWithBcc(message) ==
    LET toRecipients == GetTo(message)
        ccRecipients == GetCC(message)
        bccRecipients == GetBCC(message)
    IN  << <<"From: ">> \o GetFrom(message) >>
        \o (IF Len(toRecipients) > 0
            THEN << <<"To: ">> \o Join(toRecipients, <<",">>) >> ELSE << >>)
        \o (IF Len(ccRecipients) > 0
            THEN << <<"Cc: ">> \o Join(ccRecipients, <<",">>) >> ELSE << >>)
        \o (IF Len(bccRecipients) > 0
            THEN << <<"Bcc: ">> \o Join(bccRecipients, <<",">>) >> ELSE << >>)
        \o (IF GetReplyTo(message) # EmptyStr
            THEN << <<"Reply-To: ">> \o GetReplyTo(message) >> ELSE << >>)
        \o << <<"Subject: ">> \o GetSubject(message) >>
        \o << <<"MIME-Version: 1.0">> >>

MimeHeaders(message) ==
    LET toRecipients == GetTo(message)
        ccRecipients == GetCC(message)
    IN  << <<"From: ">> \o GetFrom(message) >>
        \o (IF Len(toRecipients) > 0
            THEN << <<"To: ">> \o Join(toRecipients, <<",">>) >> ELSE << >>)
        \o (IF Len(ccRecipients) > 0
            THEN << <<"Cc: ">> \o Join(ccRecipients, <<",">>) >> ELSE << >>)
        \o (IF GetReplyTo(message) # EmptyStr
            THEN << <<"Reply-To: ">> \o GetReplyTo(message) >> ELSE << >>)
        \o << <<"Subject: ">> \o GetSubject(message) >>
        \o << <<"MIME-Version: 1.0">> >>

\* a serializer that wraps every message in multipart/mixed
BuildMimeMessageAlwaysMixed(message, now1, now2) ==
    LET mixedBoundary == <<"mixed-boundary-">> \o Itoa(now1)
        altBoundary == <<"alt-boundary-">> \o Itoa(now2)
        attachments == GetAttachments(message)
        textMessage == GetText(message)
        htmlMessage == GetHTML(message)
    IN  MimeHeaders(message)
        \o << <<"Content-Type: multipart/mixed; boundary=">> \o mixedBoundary,
               << >>,
               <<"--">> \o mixedBoundary,
               <<"Content-Type: multipart/alternative; boundary=">> \o altBoundary,
               << >> >>
        \o (IF textMessage # EmptyStr
            THEN << <<"--">> \o altBoundary,
                    <<"Content-Type: text/plain; charset=UTF-8">>,
                    << >>,
                    textMessage >>
            ELSE << >>)
        \o (IF htmlMessage # EmptyStr
            THEN << <<"--">> \o altBoundary,
                    <<"Content-Type: text/html; charset=UTF-8">>,
                    << >>,
                    htmlMessage >>
            ELSE << >>)
        \o << <<"--">> \o altBoundary \o <<"--">> >>
        \o AttachmentParts(attachments, mixedBoundary)
        \o << <<"--">> \o mixedBoundary \o <<"--">> >>

\* a serializer that writes the text/plain part whatever the text
BuildMimeMessagePlainAlways(message, now1, now2) ==
    LET mixedBoundary == <<"mixed-boundary-">> \o Itoa(now1)
        altBoundary == <<"alt-boundary-">> \o Itoa(now2)
        attachments == GetAttachments(message)
        textMessage == GetText(message)
        htmlMessage == GetHTML(message)
    IN  MimeHeaders(message)
        \o (IF Len(attachments) > 0
            THEN << <<"Content-Type: multipart/mixed; boundary=">> \o mixedBoundary,
                    << >>,
                    <<"--">> \o mixedBoundary,
                    <<"Content-Type: multipart/alternative; boundary=">> \o altBoundary,
                    << >> >>
            ELSE << <<"Content-Type: multipart/alternative; boundary=">> \o altBoundary,
                    << >> >>)
        \o << <<"--">> \o altBoundary,
               <<"Content-Type: text/plain; charset=UTF-8">>,
               << >>,
               textMessage >>
        \o (IF htmlMessage # EmptyStr
            THEN << <<"--">> \o altBoundary,
                    <<"Content-Type: text/html; charset=UTF-8">>,
                    << >>,
                    htmlMessage >>
            ELSE << >>)
        \o << <<"--">> \o altBoundary \o <<"--">> >>
        \o (IF Len(attachments) > 0
            THEN AttachmentParts(attachments, mixedBoundary)
                 \o << <<"--">> \o mixedBoundary \o <<"--">> >>
            ELSE << >>)

\* lines 581-666
BuildMimeMessage(message, now1, now2) ==
    LET mixedBoundary == <<"mixed-boundary-">> \o Itoa(now1)
        altBoundary == <<"alt-boundary-">> \o Itoa(now2)
        attachments == GetAttachments(message)
        textMessage == GetText(message)
        htmlMessage == GetHTML(message)
    IN  MimeHeaders(message)
        \o (IF Len(attachments) > 0
            THEN << <<"Content-Type: multipart/mixed; boundary=">> \o mixedBoundary,
                    << >>,
                    <<"--">> \o mixedBoundary,
                    <<"Content-Type: multipart/alternative; boundary=">> \o altBoundary,
                    << >> >>
            ELSE << <<"Content-Type: multipart/alternative; boundary=">> \o altBoundary,
                    << >> >>)
        \o (IF textMessage # EmptyStr
            THEN << <<"--">> \o altBoundary,
                    <<"Content-Type: text/plain; charset=UTF-8">>,
                    << >>,
                    textMessage >>
            ELSE << >>)
        \o (IF htmlMessage # EmptyStr
            THEN << <<"--">> \o altBoundary,
                    <<"Content-Type: text/html; charset=UTF-8">>,
                    << >>,
                    htmlMessage >>
            ELSE << >>)
        \o << <<"--">> \o altBoundary \o <<"--">> >>
        \o (IF Len(attachments) > 0
            THEN AttachmentParts(attachments, mixedBoundary)
                 \o << <<"--">> \o mixedBoundary \o <<"--">> >>
            ELSE << >>)

\* the bytes of the message: every written line followed by CRLF
RECURSIVE Bytes(_)
Bytes(lines) ==
    IF lines = << >> THEN << >>
    ELSE Head(lines) \o <<"\r", "\n">> \o Bytes(Tail(lines))

(***************************************************************************)
(* providers/smtp: the transport and one activation of SendEmail per call. *)
(* The server is the environment: it answers every command with a reply of *)
(* its choice, or the connection is lost before the reply arrives.         *)
(***************************************************************************)
VARIABLES
    sender,   \* the smtpEmailSender shared by all calls
    call,     \* per call: the locals of SendEmail and its position
    client,   \* per call: the smtp.Client and its connection
    wire,     \* per call: what went over the connection, in order
    emails,   \* the EmailMessage objects of the calling program
    heap,     \* the arrays behind []Attachment slices and the []byte buffers
    caller    \* the calling program: what it holds, wrote and read last

vars == <<sender, call, client, wire, emails, heap, caller>>

\* the objects of package common; SendEmail takes its message by value here
objVars == <<emails, heap, caller>>

Calls == {1, 2}

AUTH_CRAM_MD5 == "CRAM-MD5"
AUTH_PLAIN == "PLAIN"
CONN_IMPLICIT == "IMPLICIT"
CONN_TLS == "TLS"

Hosts == {"smtp.example.com", "127.0.0.1"}

smtpEmailSender(host, port, user, password, authMethod, connectionMethod) ==
    [host |-> host, port |-> port, user |-> user, password |-> password,
     authMethod |-> authMethod, connectionMethod |-> connectionMethod]

NewSmtpEmailSenderWithConnMethod(host, port, user, password, authMethod, connectionMethod) ==
    smtpEmailSender(host, port, user, password, authMethod, connectionMethod)

NewSmtpEmailSender(host, port, user, password, authMethod) ==
    NewSmtpEmailSenderWithConnMethod(host, port, user, password, authMethod, CONN_IMPLICIT)

\* error values
NoError == [kind |-> "nil", code |-> 0, text |-> ""]
ReplyError(r) == [kind |-> "smtp", code |-> r.code, text |-> r.text]
IoError(text) == [kind |-> "io", code |-> 0, text |-> text]
LocalError(text) == [kind |-> "local", code |-> 0, text |-> text]

\* server replies
Reply(code, text) == [kind |-> "reply", code |-> code, text |-> text]
Lost == [kind |-> "lost", code |-> 0, text |-> ""]
\* the server's negative reply to each command, as in the mock servers of
\* smtp_email_sender_test.go
NegReply(verb) ==
    CASE verb = "GREET" -> Reply(554, "No service")
      [] verb = "EHLO" -> Reply(502, "Command not implemented")
      [] verb = "HELO" -> Reply(500, "Unrecognized command")
      [] verb = "STARTTLS" -> Reply(454, "TLS not available")
      [] verb = "AUTH" -> Reply(403, "Forbidden")
      [] verb = "RESP" -> Reply(535, "Authentication failed")
      [] verb = "*" -> Reply(500, "Unrecognized command")
      [] verb = "MAIL" -> Reply(550, "MAIL ERROR")
      [] verb = "RCPT" -> Reply(530, "No such user")
      [] verb = "DATA" -> Reply(554, "Service unavailable")
      [] verb = "EOD" -> Reply(552, "Message size exceeds fixed limit")
      [] verb = "QUIT" -> Reply(500, "Unrecognized command")
\* the answers to a command; on a connection that was lost nothing arrives
Answers(c, verb, code) ==
    IF client[c].broken THEN {Lost}
    ELSE {Reply(code, "OK"), NegReply(verb), Lost}
\* the extension lists a server may announce in its answer to EHLO, of the
\* extensions SendEmail's path reads: STARTTLS is offered on a connection
\* that is not encrypted yet, AUTH on any
Extensions(tls) ==
    IF tls THEN {{"AUTH"}, {}} ELSE SUBSET {"STARTTLS", "AUTH"}

\* textproto: does the reply code match the expected code (0: any)
Accepts(expectCode, code) ==
    IF expectCode = 0 THEN TRUE
    ELSE IF expectCode < 10 THEN code \div 100 = expectCode
    ELSE IF expectCode < 100 THEN code \div 10 = expectCode
    ELSE code = expectCode

\* the error of Client.cmd(expectCode, ...) when the server's answer is r
CmdError(expectCode, r) ==
    IF r.kind = "lost" THEN IoError("EOF")
    ELSE IF Accepts(expectCode, r.code) THEN NoError
    ELSE ReplyError(r)

\* wire events
Event(dir, verb, arg, code, text, enc, insecure, data) ==
    [dir |-> dir, verb |-> verb, arg |-> arg, code |-> code, text |-> text,
     enc |-> enc, insecure |-> insecure, data |-> data]
Sent(c, verb, arg) ==
    Event("C", verb, arg, 0, "", client[c].tls, FALSE, << >>)
Received(r) == Event("S", "", << >>, r.code, r.text, FALSE, FALSE, << >>)
Connected == Event("C", "CONNECT", << >>, 0, "", FALSE, FALSE, << >>)
Handshake(insecure) == Event("C", "TLS", << >>, 0, "", TRUE, insecure, << >>)
Closed == Event("C", "CLOSE", << >>, 0, "", FALSE, FALSE, << >>)
Written(c, data) == Event("C", "BYTES", << >>, 0, "", client[c].tls, FALSE, data)

\* one round trip of Client.cmd: the command, then the reply unless lost
ConnLost == Event("S", "LOST", << >>, 0, "", FALSE, FALSE, << >>)
RoundTrip(c, verb, arg, r) ==
    IF r.kind = "lost" THEN <<Sent(c, verb, arg), ConnLost>>
    ELSE <<Sent(c, verb, arg), Received(r)>>

IdleCall ==
    [pc |-> "idle", message |-> NilMessage, sendMailTo |-> << >>,
     msg |-> << >>, auth |-> [mech |-> "", username |-> "", password |-> "", host |-> ""],
     skipInsecure |-> FALSE, rcpt |-> 1, err |-> NoError, ret |-> NoError]

NoClient ==
    [conn |-> "none", broken |-> FALSE, tls |-> FALSE, serverName |-> "", extNil |-> TRUE,
     ext |-> {}, didHello |-> FALSE, challenges |-> 0]

\* smtp.PlainAuth and smtp.CRAMMD5Auth
PlainAuth(identity, username, password, host) ==
    [mech |-> AUTH_PLAIN, username |-> username, password |-> password, host |-> host]
CRAMMD5Auth(username, secret) ==
    [mech |-> AUTH_CRAM_MD5, username |-> username, password |-> secret, host |-> ""]

isLocalhost(name) == name \in {"localhost", "127.0.0.1", "::1"}

\* validateLine of net/smtp: a line must not contain CR or LF
validateLine(line) == \A i \in 1..Len(line) : line[i] \notin {"\r", "\n"}

(***************************************************************************)
(* Messages and transports of the model.                                   *)
(***************************************************************************)
AddrA == <<"a", "@", "x", ".", "c", "c">>
AddrB == <<" ", "b", "@", "x", ".", "c", "c", " ">>
AddrBad == <<"b", "a", "d">>
AddrFrom == <<"f", "@", "x", ".", "c", "c">>
RawAddrs == {AddrA, AddrB, AddrBad}
Froms == {AddrFrom, EmptyStr}
SubjectHi == <<"H", "i">>
TextHello == <<"H", "e", "l", "l", "o">>

ListsOf(n) == UNION {[1..k -> RawAddrs] : k \in 0..n}

Messages ==
    {NilMessage} \cup
    {EmailMessage(f, l[1], l[2], l[3], EmptyStr, SubjectHi, TextHello, EmptyStr, << >>) :
        f \in Froms,
        l \in {x \in ListsOf(MaxRcpts) \X ListsOf(MaxRcpts) \X ListsOf(MaxRcpts) :
                  Len(x[1]) + Len(x[2]) + Len(x[3]) <= MaxRcpts}}
    \cup
    {EmailMessage(AddrBad, to, << >>, << >>, EmptyStr, SubjectHi, TextHello, EmptyStr, << >>) :
        to \in {<<AddrBad>>, <<AddrA>>}}

\* the host matters where the connection may be unencrypted: PlainAuth
\* sends its credentials to localhost only
Senders ==
    {NewSmtpEmailSender(h, 465, "user", "password", a) :
        h \in Hosts, a \in {AUTH_PLAIN, AUTH_CRAM_MD5}}
    \cup
    {NewSmtpEmailSenderWithConnMethod("smtp.example.com", 465, "user", "password", a, CONN_TLS) :
        a \in {AUTH_PLAIN, AUTH_CRAM_MD5}}

\* no message object exists yet, the heap is empty, the caller did nothing
NoObjects ==
    /\ emails = << >>
    /\ heap = [arrays |-> << >>, buffers |-> << >>]
    /\ caller = [op |-> "none"]

Init ==
    /\ sender \in Senders
    /\ call = [c \in Calls |-> IdleCall]
    /\ client = [c \in Calls |-> NoClient]
    /\ wire = [c \in Calls |-> << >>]
    /\ NoObjects

(***************************************************************************)
(* SendEmail, one action per blocking operation.                           *)
(***************************************************************************)
\* a transport that keeps its connection in a field: every call sees the
\* client the last step left
UpdateShared(c, callRec, clientRec, events) ==
    /\ call' = [call EXCEPT ![c] = callRec]
    /\ client' = [d \in Calls |->
          [clientRec EXCEPT !.broken = @ \/ \E i \in 1..Len(events) : events[i].verb = "LOST"]]
    /\ wire' = [wire EXCEPT ![c] = @ \o events]
    /\ UNCHANGED <<sender, objVars>>

Update(c, callRec, clientRec, events) ==
    /\ call' = [call EXCEPT ![c] = callRec]
    /\ client' = [client EXCEPT ![c] =
          [clientRec EXCEPT !.broken = @ \/ \E i \in 1..Len(events) : events[i].verb = "LOST"]]
    /\ wire' = [wire EXCEPT ![c] = @ \o events]
    /\ UNCHANGED <<sender, objVars>>

\* a return that wraps the failure in a message of its own
ReturnWrapped(c, err, cl, events) ==
    LET deferred == sender.connectionMethod # CONN_TLS /\ cl.conn = "open"
        wrapped == IF err = NoError THEN NoError
                   ELSE LocalError("failed to send email")
    IN  Update(c, [call[c] EXCEPT !.pc = "done", !.ret = wrapped],
               IF deferred THEN [cl EXCEPT !.conn = "closed"] ELSE cl,
               IF deferred THEN Append(events, Closed) ELSE events)

\* SendEmail returns err.  smtp.SendMail has deferred c.Close() once its
\* Dial succeeded; the CONN_TLS branch returns without closing.
Return(c, err, cl, events) ==
    LET deferred == sender.connectionMethod # CONN_TLS /\ cl.conn = "open"
    IN  Update(c, [call[c] EXCEPT !.pc = "done", !.ret = err],
               IF deferred THEN [cl EXCEPT !.conn = "closed"] ELSE cl,
               IF deferred THEN Append(events, Closed) ELSE events)

Goto(c, pc, cl, events) ==
    Update(c, [call[c] EXCEPT !.pc = pc], cl, events)

\* a set-union reading of the envelope: every address once
RECURSIVE Dedup(_)
Dedup(list) ==
    IF list = << >> THEN << >>
    ELSE LET rest == Dedup(SubSeq(list, 1, Len(list) - 1))
             last == list[Len(list)]
         IN  IF last \in Range(rest) THEN rest ELSE Append(rest, last)

EnvelopeUnion(message) ==
    Dedup(GetTo(message) \o GetCC(message) \o GetBCC(message))

\* lines 86-88: CC and BCC recipients are appended to the To recipients
Envelope(message) ==
    GetTo(message) \o GetCC(message) \o GetBCC(message)

\* a send that validates the message first
SendEmailValidating(c, message, now1, now2, appEnv) ==
    /\ call[c].pc = "idle"
    /\ LET sendMailTo == Envelope(message)
           msg == BuildMimeMessage(message, now1, now2)
           auth == IF sender.authMethod = AUTH_CRAM_MD5
                   THEN CRAMMD5Auth(sender.user, sender.password)
                   ELSE PlainAuth("", sender.user, sender.password, sender.host)
           skipInsecure == sender.connectionMethod = CONN_TLS /\ appEnv = "development"
           invalid == GetFrom(message) = EmptyStr \/ sendMailTo = << >>
       IN  /\ call' = [call EXCEPT ![c] =
                 [IdleCall EXCEPT !.pc = IF invalid THEN "done"
                                         ELSE IF sender.connectionMethod = CONN_TLS
                                         THEN "tlsDial" ELSE "dial",
                                  !.message = message, !.sendMailTo = sendMailTo,
                                  !.msg = msg, !.auth = auth,
                                  !.skipInsecure = skipInsecure,
                                  !.ret = IF invalid THEN LocalError("invalid message")
                                          ELSE NoError]]
           /\ client' = [client EXCEPT ![c] = NoClient]
           /\ wire' = [wire EXCEPT ![c] = << >>]
           /\ UNCHANGED <<sender, objVars>>

\* lines 84-108: the envelope, the message bytes, the auth and the TLS
\* configuration; then the branch on the connection method
SendEmail(c, message, now1, now2, appEnv) ==
    /\ call[c].pc = "idle"
    /\ LET sendMailTo == Envelope(message)
           msg == BuildMimeMessage(message, now1, now2)
           auth == IF sender.authMethod = AUTH_CRAM_MD5
                   THEN CRAMMD5Auth(sender.user, sender.password)
                   ELSE PlainAuth("", sender.user, sender.password, sender.host)
           skipInsecure == sender.connectionMethod = CONN_TLS /\ appEnv = "development"
       IN  /\ call' = [call EXCEPT ![c] =
                 [IdleCall EXCEPT !.pc = IF sender.connectionMethod = CONN_TLS
                                         THEN "tlsDial" ELSE "dial",
                                  !.message = message, !.sendMailTo = sendMailTo,
                                  !.msg = msg, !.auth = auth,
                                  !.skipInsecure = skipInsecure]]
           /\ client' = [client EXCEPT ![c] = NoClient]
           /\ wire' = [wire EXCEPT ![c] = << >>]
           /\ UNCHANGED <<sender, objVars>>

\* line 110: tls.Dial connects and completes the handshake, and closes the
\* connection itself when the handshake fails
TlsDial(c) ==
    /\ call[c].pc = "tlsDial"
    /\ \E outcome \in {"ok", "refused", "handshake"} :
         CASE outcome = "refused" ->
                Return(c, IoError("dial tcp: connection refused"), client[c], << >>)
           [] outcome = "handshake" ->
                Return(c, IoError("tls: handshake failure"),
                       [client[c] EXCEPT !.conn = "closed"], <<Connected, Closed>>)
           [] outcome = "ok" ->
                Goto(c, "greet",
                     [client[c] EXCEPT !.conn = "open", !.tls = TRUE],
                     <<Connected, Handshake(call[c].skipInsecure)>>)

\* line 149, smtp.SendMail: validateLine on the envelope, then net.Dial
Dial(c) ==
    /\ call[c].pc = "dial"
    /\ IF ~(validateLine(GetFrom(call[c].message))
            /\ \A i \in 1..Len(call[c].sendMailTo) : validateLine(call[c].sendMailTo[i]))
       THEN Return(c, LocalError("smtp: A line must not contain CR or LF"), client[c], << >>)
       ELSE \E outcome \in {"ok", "refused"} :
              IF outcome = "refused"
              THEN Return(c, IoError("dial tcp: connection refused"), client[c], << >>)
              ELSE Goto(c, "greet", [client[c] EXCEPT !.conn = "open"], <<Connected>>)

\* smtp.NewClient (line 115, and inside smtp.Dial): read the 220 greeting,
\* close the connection when it is not one
Greet(c) ==
    /\ call[c].pc = "greet"
    /\ \E r \in Answers(c, "GREET", 220) :
         LET err == CmdError(220, r)
             events == IF r.kind = "lost" THEN <<ConnLost>> ELSE <<Received(r)>>
         IN  IF err # NoError
             THEN Update(c, [call[c] EXCEPT !.pc = "done", !.ret = err],
                         [client[c] EXCEPT !.conn = "closed"], Append(events, Closed))
             ELSE Goto(c, "ehlo",
                       [client[c] EXCEPT !.serverName = sender.host], events)

\* where a call goes once Client.hello succeeded: SendMail asks for the
\* STARTTLS extension, the CONN_TLS branch is inside client.Auth
AfterHello(cl) ==
    IF sender.connectionMethod # CONN_TLS /\ ~cl.extNil /\ "STARTTLS" \in cl.ext
    THEN "starttls" ELSE "auth"

\* Client.hello, first half: EHLO; any error falls back to HELO
Ehlo(c) ==
    /\ call[c].pc = "ehlo"
    /\ \E r \in Answers(c, "EHLO", 250), ext \in Extensions(client[c].tls) :
         LET err == CmdError(250, r)
             events == RoundTrip(c, "EHLO", << >>, r)
         IN  IF err # NoError
             THEN /\ ext = {}
                  /\ Goto(c, "helo", [client[c] EXCEPT !.didHello = TRUE], events)
             ELSE LET cl == [client[c] EXCEPT !.didHello = TRUE,
                                              !.extNil = FALSE, !.ext = ext]
                  IN  Goto(c, AfterHello(cl), cl, events)

\* Client.hello, second half: HELO resets the extensions to nil
Helo(c) ==
    /\ call[c].pc = "helo"
    /\ \E r \in Answers(c, "HELO", 250) :
         LET err == CmdError(250, r)
             events == RoundTrip(c, "HELO", << >>, r)
             cl == [client[c] EXCEPT !.extNil = TRUE, !.ext = {}]
         IN  IF err # NoError
             THEN Return(c, err, cl, events)
             ELSE Goto(c, AfterHello(cl), cl, events)

\* Client.StartTLS (SendMail only): the STARTTLS command
StartTLS(c) ==
    /\ call[c].pc = "starttls"
    /\ \E r \in Answers(c, "STARTTLS", 220) :
         LET err == CmdError(220, r)
             events == RoundTrip(c, "STARTTLS", << >>, r)
         IN  IF err # NoError
             THEN Return(c, err, client[c], events)
             ELSE Goto(c, "ehloTLS", [client[c] EXCEPT !.tls = TRUE], events)

\* Client.StartTLS, continued: the handshake runs on the first write, which
\* is the second EHLO; its failure is not retried with HELO
EhloTLS(c) ==
    /\ call[c].pc = "ehloTLS"
    /\ \/ Return(c, IoError("tls: handshake failure"), client[c], << >>)
       \/ \E r \in Answers(c, "EHLO", 250), ext \in Extensions(TRUE) :
            LET err == CmdError(250, r)
                events == <<Handshake(FALSE)>> \o RoundTrip(c, "EHLO", << >>, r)
            IN  IF err # NoError
                THEN ext = {} /\ Return(c, err, client[c], events)
                ELSE Goto(c, "auth",
                          [client[c] EXCEPT !.extNil = FALSE, !.ext = ext], events)

\* what the server may answer inside an AUTH exchange
AuthAnswers(c) ==
    IF client[c].broken THEN {Lost}
    ELSE {Reply(235, "Authentication successful"), Lost}
         \cup {NegReply(IF call[c].pc = "auth" THEN "AUTH" ELSE "RESP")}
         \cup (IF client[c].challenges < MaxChallenges
               THEN {Reply(334, "Y2hhbGxlbmdl"), Reply(334, "not base64!")}
               ELSE {})

\* Client.Auth, the body of its loop for the answer r to what was just sent
AuthNext(c, r, events) ==
    IF r.kind = "lost" THEN Return(c, IoError("EOF"), client[c], events)
    ELSE IF r.code = 235 THEN Goto(c, "mail", client[c], events)
    ELSE IF r.code = 334
    THEN IF r.text = "not base64!"
         THEN Update(c, [call[c] EXCEPT !.pc = "authAbort",
                                        !.err = LocalError("illegal base64 data")],
                     client[c], events)
         ELSE IF call[c].auth.mech = AUTH_PLAIN
         THEN Update(c, [call[c] EXCEPT !.pc = "authAbort",
                                        !.err = LocalError("unexpected server challenge")],
                     client[c], events)
         ELSE Goto(c, "authResp",
                   [client[c] EXCEPT !.challenges = @ + 1], events)
    ELSE Update(c, [call[c] EXCEPT !.pc = "authAbort", !.err = ReplyError(r)],
                client[c], events)

\* line 120 client.Auth, and in smtp.SendMail the guard in front of it:
\* Auth.Start, then the AUTH command
Auth(c) ==
    /\ call[c].pc = "auth"
    /\ LET cl == client[c]
           a == call[c].auth
       IN  IF sender.connectionMethod # CONN_TLS /\ cl.extNil
           THEN Goto(c, "mail", cl, << >>)
           ELSE IF sender.connectionMethod # CONN_TLS /\ "AUTH" \notin cl.ext
           THEN Return(c, LocalError("smtp: server doesn't support AUTH"), cl, << >>)
           ELSE IF a.mech = AUTH_PLAIN /\ ~cl.tls /\ ~isLocalhost(cl.serverName)
           THEN Update(c, [call[c] EXCEPT !.pc = "authQuit",
                                          !.err = LocalError("unencrypted connection")],
                       cl, << >>)
           ELSE IF a.mech = AUTH_PLAIN /\ cl.serverName # a.host
           THEN Update(c, [call[c] EXCEPT !.pc = "authQuit",
                                          !.err = LocalError("wrong host name")],
                       cl, << >>)
           ELSE \E r \in AuthAnswers(c) :
                  AuthNext(c, r, RoundTrip(c, "AUTH", <<a.mech>>, r))

\* Client.Auth: the response to a challenge
AuthResp(c) ==
    /\ call[c].pc = "authResp"
    /\ \E r \in AuthAnswers(c) :
         AuthNext(c, r, RoundTrip(c, "RESP", << >>, r))

\* Client.Auth: abort the exchange with "*", whatever the server answers
AuthAbort(c) ==
    /\ call[c].pc = "authAbort"
    /\ \E r \in Answers(c, "*", 501) :
         Goto(c, "authQuit", client[c], RoundTrip(c, "*", << >>, r))

\* Client.Auth: c.Quit() after a failed exchange, then return the failure
AuthQuit(c) ==
    /\ call[c].pc = "authQuit"
    /\ \E r \in Answers(c, "QUIT", 221) :
         LET events == RoundTrip(c, "QUIT", << >>, r)
         IN  IF CmdError(221, r) = NoError
             THEN Return(c, call[c].err, [client[c] EXCEPT !.conn = "closed"],
                         Append(events, Closed))
             ELSE Return(c, call[c].err, client[c], events)

\* line 124 client.Mail
Mail(c) ==
    /\ call[c].pc = "mail"
    /\ LET from == GetFrom(call[c].message)
       IN  IF ~validateLine(from)
           THEN Return(c, LocalError("smtp: A line must not contain CR or LF"),
                       client[c], << >>)
           ELSE \E r \in Answers(c, "MAIL", 250) :
                  LET err == CmdError(250, r)
                      events == RoundTrip(c, "MAIL", from, r)
                  IN  IF err # NoError
                      THEN Return(c, err, client[c], events)
                      ELSE Goto(c, IF Len(call[c].sendMailTo) = 0 THEN "data" ELSE "rcpt",
                                client[c], events)

\* a loop that skips a recipient the server refused
RcptContinue(c) ==
    /\ call[c].pc = "rcpt"
    /\ LET addr == call[c].sendMailTo[call[c].rcpt]
       IN  \E r \in Answers(c, "RCPT", 250) :
             LET err == CmdError(25, r)
                 events == RoundTrip(c, "RCPT", addr, r)
             IN  IF err.kind = "io"
                 THEN Return(c, err, client[c], events)
                 ELSE Update(c, [call[c] EXCEPT
                                   !.rcpt = @ + 1,
                                   !.pc = IF call[c].rcpt = Len(call[c].sendMailTo)
                                          THEN "data" ELSE "rcpt"],
                             client[c], events)

\* lines 127-131: client.Rcpt for the next address of sendMailTo
Rcpt(c) ==
    /\ call[c].pc = "rcpt"
    /\ LET addr == call[c].sendMailTo[call[c].rcpt]
       IN  IF ~validateLine(addr)
           THEN Return(c, LocalError("smtp: A line must not contain CR or LF"),
                       client[c], << >>)
           ELSE \E r \in Answers(c, "RCPT", 250) :
                  LET err == CmdError(25, r)
                      events == RoundTrip(c, "RCPT", addr, r)
                  IN  IF err # NoError
                      THEN Return(c, err, client[c], events)
                      ELSE Update(c, [call[c] EXCEPT
                                        !.rcpt = @ + 1,
                                        !.pc = IF call[c].rcpt = Len(call[c].sendMailTo)
                                               THEN "data" ELSE "rcpt"],
                                  client[c], events)

\* line 133 client.Data
Data(c) ==
    /\ call[c].pc = "data"
    /\ \E r \in Answers(c, "DATA", 354) :
         LET err == CmdError(354, r)
             events == RoundTrip(c, "DATA", << >>, r)
         IN  IF err # NoError
             THEN Return(c, err, client[c], events)
             ELSE Goto(c, "write", client[c], events)

\* line 138 w.Write(msg)
Write(c) ==
    /\ call[c].pc = "write"
    /\ \/ Goto(c, "close", client[c], <<Written(c, call[c].msg)>>)
       \/ Return(c, IoError("write: broken pipe"), client[c], <<ConnLost>>)

\* a send that drops the error of w.Close()
CloseDataIgnore(c) ==
    /\ call[c].pc = "close"
    /\ \E r \in Answers(c, "EOD", 250) :
         Goto(c, "quit", client[c], RoundTrip(c, "EOD", << >>, r))

\* line 142 w.Close(): the end-of-data line, then the server's verdict
CloseData(c) ==
    /\ call[c].pc = "close"
    /\ \E r \in Answers(c, "EOD", 250) :
         LET err == CmdError(250, r)
             events == RoundTrip(c, "EOD", << >>, r)
         IN  IF err # NoError
             THEN Return(c, err, client[c], events)
             ELSE Goto(c, "quit", client[c], events)

\* a send that drops the error of client.Quit
QuitIgnore(c) ==
    /\ call[c].pc = "quit"
    /\ \E r \in Answers(c, "QUIT", 221) :
         LET events == RoundTrip(c, "QUIT", << >>, r)
         IN  IF CmdError(221, r) # NoError
             THEN Return(c, NoError, client[c], events)
             ELSE Return(c, NoError, [client[c] EXCEPT !.conn = "closed"],
                         Append(events, Closed))

\* line 147 client.Quit: the connection is closed when the server says 221
Quit(c) ==
    /\ call[c].pc = "quit"
    /\ \E r \in Answers(c, "QUIT", 221) :
         LET err == CmdError(221, r)
             events == RoundTrip(c, "QUIT", << >>, r)
         IN  IF err # NoError
             THEN Return(c, err, client[c], events)
             ELSE Return(c, NoError, [client[c] EXCEPT !.conn = "closed"],
                         Append(events, Closed))

Step(c) ==
    \/ TlsDial(c) \/ Dial(c) \/ Greet(c) \/ Ehlo(c) \/ Helo(c)
    \/ StartTLS(c) \/ EhloTLS(c)
    \/ Auth(c) \/ AuthResp(c) \/ AuthAbort(c) \/ AuthQuit(c)
    \/ Mail(c) \/ Rcpt(c) \/ Data(c) \/ Write(c) \/ CloseData(c) \/ Quit(c)

\* the time stamps BuildMimeMessage reads from the clock
Nanos == {1}

\* the values of APP_ENV; only the CONN_TLS branch reads it (line 101)
AppEnvs(s) ==
    IF s.connectionMethod = CONN_TLS THEN {"development", ""} ELSE {""}

\* one caller, any message
Next ==
    \/ \E m \in Messages, t \in Nanos, env \in AppEnvs(sender) :
          SendEmail(1, m, t, t, env)
    \/ Step(1)

Spec == Init /\ [][Next]_vars

\* two callers sharing the transport, each with a message of its own
ConcMessages(c) ==
    IF c = 1
    THEN {EmailMessage(AddrFrom, <<AddrA>>, << >>, <<AddrB>>, EmptyStr,
                       SubjectHi, TextHello, EmptyStr, << >>)}
    ELSE {EmailMessage(EmptyStr, <<AddrB>>, << >>, << >>, EmptyStr,
                       SubjectHi, TextHello, EmptyStr, << >>)}

NextConc ==
    \E c \in Calls :
        \/ \E m \in ConcMessages(c), t \in Nanos, env \in AppEnvs(sender) :
              SendEmail(c, m, t, t, env)
        \/ Step(c)

SpecConc == Init /\ [][NextConc]_vars

(***************************************************************************)
(* Reading the wire.                                                       *)
(***************************************************************************)
IsCmd(e, verb) == e.dir = "C" /\ e.verb = verb
IsReply(e) == e.dir = "S" /\ e.verb = ""

\* the reply to the command at position i of log w, if it arrived
HasReply(w, i) == i + 1 <= Len(w) /\ IsReply(w[i + 1])

\* the code a command has to be answered with to go on
Expected(verb) ==
    CASE verb \in {"EHLO", "HELO", "MAIL", "EOD"} -> 250
      [] verb = "RCPT" -> 25
      [] verb = "STARTTLS" -> 220
      [] verb = "DATA" -> 354
      [] verb = "QUIT" -> 221
      [] verb \in {"AUTH", "RESP"} -> 2
      [] OTHER -> 0

AcceptedAt(w, i) ==
    HasReply(w, i) /\ Accepts(Expected(w[i].verb), w[i + 1].code)

\* the command at i was answered, and not with what it needed
RejectedAt(w, i) ==
    HasReply(w, i) /\ w[i + 1].code # 334
                   /\ ~Accepts(Expected(w[i].verb), w[i + 1].code)

\* the arguments of the commands named verb, in the order issued
Args(w, verb) ==
    LET cmds == SelectSeq(w, LAMBDA e : IsCmd(e, verb))
    IN  [i \in 1..Len(cmds) |-> cmds[i].arg]

\* the verbs of everything the client did on the wire, CLOSE left out
Verbs(w) ==
    LET cmds == SelectSeq(w, LAMBDA e : e.dir = "C" /\ e.verb # "CLOSE")
    IN  [i \in 1..Len(cmds) |-> cmds[i].verb]

\* s occurs in t as a contiguous part
Contains(t, s) ==
    \E i \in 0..(Len(t) - Len(s)) : SubSeq(t, i + 1, i + Len(s)) = s

IsPrefix(s, t) == Len(s) <= Len(t) /\ SubSeq(t, 1, Len(s)) = s

\* the header section of a serialized message: the lines before the first
\* empty line
RECURSIVE HeaderSection(_)
HeaderSection(lines) ==
    IF lines = << >> \/ Head(lines) = << >> THEN << >>
    ELSE <<Head(lines)>> \o HeaderSection(Tail(lines))

(***************************************************************************)
(* C1.  MAIL FROM is issued only after an AUTH exchange was issued and     *)
(* accepted earlier in the same session; after a rejected AUTH the call    *)
(* ends with an error and issues no MAIL FROM, RCPT TO or DATA.            *)
(***************************************************************************)
C1_MailOnlyAfterAuth ==
    \A c \in Calls :
        LET w == wire[c] IN
        /\ \A i \in 1..Len(w) :
              IsCmd(w[i], "MAIL") =>
                  \E j \in 1..(i - 1) :
                      /\ w[j].dir = "C" /\ w[j].verb \in {"AUTH", "RESP"}
                      /\ HasReply(w, j) /\ w[j + 1].code = 235
        /\ \A i \in 1..Len(w) :
              (w[i].dir = "C" /\ w[i].verb \in {"AUTH", "RESP"} /\ RejectedAt(w, i)) =>
                  /\ call[c].pc = "done" => call[c].ret # NoError
                  /\ \A j \in (i + 1)..Len(w) :
                        ~(w[j].dir = "C" /\ w[j].verb \in {"MAIL", "RCPT", "DATA"})

(***************************************************************************)
(* C2.  Whenever the message bytes are sent in DATA, every valid BCC       *)
(* address was given a RCPT TO before, the header section of the bytes has *)
(* no Bcc header, and no header line contains an address that is a BCC     *)
(* recipient only.                                                         *)
(***************************************************************************)
BccOnly(m) ==
    {a \in Range(GetBCC(m)) :
        a \notin Range(GetTo(m)) \cup Range(GetCC(m)) \cup {GetFrom(m), GetReplyTo(m)}}

C2_BccInEnvelopeOnly ==
    \A c \in Calls :
        LET w == wire[c]
            m == call[c].message
        IN  \A i \in 1..Len(w) :
              IsCmd(w[i], "BYTES") =>
                  /\ \A a \in Range(GetBCC(m)) :
                        \E j \in 1..(i - 1) : IsCmd(w[j], "RCPT") /\ w[j].arg = a
                  /\ \A line \in Range(HeaderSection(w[i].data)) :
                        /\ Head(line) # "Bcc: "
                        /\ \A a \in BccOnly(m) : ~Contains(line, a)

C2_Witness ==
    \E c \in Calls :
        /\ \E i \in 1..Len(wire[c]) : IsCmd(wire[c][i], "BYTES")
        /\ BccOnly(call[c].message) # {}
        /\ GetTo(call[c].message) # << >>

(***************************************************************************)
(* C3.  The protocol actions of one call are a prefix of the fixed         *)
(* sequence connect, (TLS handshake), EHLO, AUTH, MAIL FROM, one RCPT TO   *)
(* per envelope recipient, DATA, message bytes, end-of-data, QUIT: nothing *)
(* out of this order, nothing repeated or retried after a failure, at most *)
(* one connection, and each RCPT TO only after the reply to the one        *)
(* before it.  The responses inside the AUTH exchange count as part of     *)
(* AUTH, and the TLS handshake is read as optional.                        *)
(***************************************************************************)
FixedSequence(c) ==
    <<"CONNECT", "EHLO", "AUTH", "MAIL">>
        \o [i \in 1..Len(call[c].sendMailTo) |-> "RCPT"]
        \o <<"DATA", "BYTES", "EOD", "QUIT">>

ProtocolActions(w) == SelectSeq(Verbs(w), LAMBDA v : v \notin {"TLS", "RESP"})

C3_FixedSequence ==
    \A c \in Calls :
        LET w == wire[c] IN
        /\ IsPrefix(ProtocolActions(w), FixedSequence(c))
        /\ \A i \in 1..Len(w) : IsCmd(w[i], "TLS") => i = 2
        /\ \A i \in 1..Len(w) :
              (IsCmd(w[i], "RCPT") /\ i < Len(w)) => w[i + 1].dir = "S"

(***************************************************************************)
(* C4.  A rejected RCPT TO ends the call with an error: no further RCPT TO *)
(* and no DATA, message bytes or end-of-data follow it, also when earlier  *)
(* recipients were accepted.                                               *)
(***************************************************************************)
C4_RejectedRcptAborts ==
    \A c \in Calls :
        LET w == wire[c] IN
        \A i \in 1..Len(w) :
            (IsCmd(w[i], "RCPT") /\ RejectedAt(w, i)) =>
                /\ call[c].pc = "done"
                /\ call[c].ret # NoError
                /\ \A j \in (i + 1)..Len(w) :
                      ~(w[j].dir = "C" /\ w[j].verb \in {"RCPT", "DATA", "BYTES", "EOD"})

C4_Witness ==
    \E c \in Calls :
        LET w == wire[c] IN
        \E i, j \in 1..Len(w) :
            /\ i < j
            /\ IsCmd(w[i], "RCPT") /\ AcceptedAt(w, i)
            /\ IsCmd(w[j], "RCPT") /\ RejectedAt(w, j)
            /\ call[c].pc = "done"

(***************************************************************************)
(* C5.  Once SendEmail has returned, the connection the call opened is     *)
(* closed, whatever the step that ended the call.                          *)
(***************************************************************************)
C5_ConnectionClosed ==
    \A c \in Calls :
        (call[c].pc = "done" /\ client[c].conn # "none") => client[c].conn = "closed"

(***************************************************************************)
(* C6.  On a CONN_IMPLICIT transport every SMTP command, the message bytes *)
(* included, is sent after a completed TLS handshake and inside the        *)
(* encrypted channel.                                                      *)
(***************************************************************************)
C6_TlsBeforeCommands ==
    \A c \in Calls :
        LET w == wire[c] IN
        sender.connectionMethod = CONN_IMPLICIT =>
            \A i \in 1..Len(w) :
                (w[i].dir = "C" /\ w[i].verb \notin {"CONNECT", "TLS", "CLOSE"}) =>
                    /\ w[i].enc
                    /\ \E j \in 1..(i - 1) : IsCmd(w[j], "TLS")

(***************************************************************************)
(* C7.  A call that returned nil had its MAIL FROM accepted, the RCPT TO   *)
(* of every envelope recipient accepted, and the end of the message data   *)
(* accepted after the message bytes were written; every other call that    *)
(* returned, returned an error.                                            *)
(***************************************************************************)
AcceptedRcpts(w) ==
    LET idx == {i \in 1..Len(w) : IsCmd(w[i], "RCPT") /\ AcceptedAt(w, i)}
        cmds == SelectSeq([i \in 1..Len(w) |-> [e |-> w[i], ok |-> i \in idx]],
                          LAMBDA x : x.ok)
    IN  [i \in 1..Len(cmds) |-> cmds[i].e.arg]

Delivered(c) ==
    LET w == wire[c] IN
    /\ \E i \in 1..Len(w) :
          IsCmd(w[i], "MAIL") /\ w[i].arg = GetFrom(call[c].message) /\ AcceptedAt(w, i)
    /\ AcceptedRcpts(w) = call[c].sendMailTo
    /\ \E i, j \in 1..Len(w) :
          /\ i < j
          /\ IsCmd(w[i], "BYTES") /\ w[i].data = call[c].msg
          /\ IsCmd(w[j], "EOD") /\ AcceptedAt(w, j)

C7_SuccessOnlyIfAllAccepted ==
    \A c \in Calls :
        call[c].pc = "done" => (call[c].ret = NoError => Delivered(c))

C7_Witness ==
    \E c \in Calls :
        /\ call[c].pc = "done"
        /\ call[c].ret = NoError
        /\ Len(call[c].sendMailTo) >= 2

(***************************************************************************)
(* C8, as stated.  When a call has returned and the server answered EHLO,  *)
(* AUTH, MAIL FROM, RCPT TO, DATA or the end of data with a negative       *)
(* reply, the error returned is the reply, code and text, to the first of  *)
(* these that failed; a failed dial or TLS handshake is returned as the    *)
(* transport's error.                                                      *)
(***************************************************************************)
Refused(w, i, verbs) ==
    /\ w[i].dir = "C" /\ w[i].verb \in verbs /\ RejectedAt(w, i)
    /\ \A j \in 1..(i - 1) : ~(w[j].dir = "C" /\ w[j].verb \in verbs /\ RejectedAt(w, j))

ReplyAt(w, i) == Reply(w[i + 1].code, w[i + 1].text)

\* the call ended in the dial or in a TLS handshake: nothing was sent, or
\* the last thing on the wire is the server's go-ahead for STARTTLS
TransportFailed(c) ==
    LET w == SelectSeq(wire[c], LAMBDA e : e.verb # "CLOSE") IN
    /\ validateLine(GetFrom(call[c].message))
    /\ \A i \in 1..Len(call[c].sendMailTo) : validateLine(call[c].sendMailTo[i])
    /\ \/ Len(w) <= 1
       \/ IsCmd(w[Len(w) - 1], "STARTTLS") /\ IsReply(w[Len(w)]) /\ w[Len(w)].code = 220

ErrorIsReply(c, verbs) ==
    LET w == wire[c] IN
    call[c].pc = "done" =>
        /\ \A i \in 1..Len(w) :
              Refused(w, i, verbs) => call[c].ret = ReplyError(ReplyAt(w, i))
        /\ TransportFailed(c) => call[c].ret.kind = "io"

Upgraded(w, i) == \E j \in 1..(i - 1) : IsCmd(w[j], "STARTTLS")

Recipients(m) == Range(GetTo(m)) \cup Range(GetCC(m)) \cup Range(GetBCC(m))

DataIssued(w) == \E i \in 1..Len(w) : IsCmd(w[i], "DATA")

C9_OneRcptPerRecipient ==
    \A c \in Calls :
        LET rcpts == Args(wire[c], "RCPT")
            m == call[c].message
        IN  /\ Range(rcpts) \subseteq Recipients(m)
            /\ \A i, j \in 1..Len(rcpts) : i # j => rcpts[i] # rcpts[j]
            /\ DataIssued(wire[c]) => Range(rcpts) = Recipients(m)

(***************************************************************************)
(* C9, amended.  The RCPT TO commands name, in order, the entries of the   *)
(* validated To list, then of the CC list, then of the BCC list, one RCPT  *)
(* TO per entry: an address with several entries is given as many RCPT TO. *)
(* When DATA is issued every entry has had its RCPT TO, and no RCPT TO     *)
(* names an address outside the lists.                                     *)
(***************************************************************************)
C9_OneRcptPerListEntry ==
    \A c \in Calls :
        LET rcpts == Args(wire[c], "RCPT")
            m == call[c].message
            entries == GetTo(m) \o GetCC(m) \o GetBCC(m)
        IN  /\ IsPrefix(rcpts, entries)
            /\ DataIssued(wire[c]) => rcpts = entries

C9_Witness ==
    \E c \in Calls :
        LET rcpts == Args(wire[c], "RCPT") IN
        /\ DataIssued(wire[c])
        /\ \E i, j \in 1..Len(rcpts) : i # j /\ rcpts[i] = rcpts[j]

(***************************************************************************)
(* C10.  With two calls running on one transport, no step writes a field   *)
(* of the transport, a step of one call leaves the other call's locals,    *)
(* client and connection as they were, and each call's session is the one  *)
(* its own message and settings give: one connection of its own, the TLS   *)
(* settings it computed, its own sender, recipients and message bytes.     *)
(***************************************************************************)
OwnSession(c) ==
    LET w == wire[c]
        m == call[c].message
    IN  /\ Len(SelectSeq(w, LAMBDA e : IsCmd(e, "CONNECT"))) <= 1
        /\ w # << >> => IsCmd(w[1], "CONNECT")
        /\ \A i \in 1..Len(w) :
              /\ IsCmd(w[i], "TLS") => w[i].insecure = call[c].skipInsecure
              /\ IsCmd(w[i], "MAIL") => w[i].arg = GetFrom(m)
              /\ IsCmd(w[i], "BYTES") => w[i].data = call[c].msg
              /\ (w[i].dir = "C" /\ w[i].verb \notin {"CONNECT", "CLOSE"}
                    /\ sender.connectionMethod = CONN_TLS) => w[i].enc
        /\ IsPrefix(Args(w, "RCPT"), GetTo(m) \o GetCC(m) \o GetBCC(m))

Moved(c) == call'[c] # call[c] \/ client'[c] # client[c] \/ wire'[c] # wire[c]

Isolated ==
    /\ sender' = sender
    /\ \A c \in Calls :
          Moved(c) => \A d \in Calls \ {c} : ~Moved(d)

C10_CallsIndependent ==
    /\ [](\A c \in Calls : OwnSession(c))
    /\ [][Isolated]_vars

C10_Witness ==
    /\ call[1].pc = "rcpt" /\ call[2].pc = "data"
    /\ call[1].message # call[2].message
    /\ client[1].conn = "open" /\ client[2].conn = "open"

(***************************************************************************)
(* common: messages and attachments as objects.  An []Attachment is a      *)
(* slice (array, len) over an array of Attachment structs whose length is  *)
(* the capacity; the content of an Attachment is a []byte, a reference to  *)
(* a buffer.  Copying a slice or a struct copies the references.           *)
(***************************************************************************)
\* total number of arrays on the heap, the caller's own included
MaxArrays == 4
\* number of writes the caller makes: writing calls on its messages and
\* attachments, stores into its slices and buffers
MaxWrites == 2

EmailIds == {1, 2}

NilSlice == [arr |-> 0, len |-> 0]
NilBuffer == 0
Slice(arr, len) == [arr |-> arr, len |-> len]

\* Attachment{}: the zero value in the unused capacity of an array
ZeroAttachment == [filename |-> EmptyStr, content |-> NilBuffer]

Cap(h, s) == IF s.arr = 0 THEN 0 ELSE Len(h.arrays[s.arr])
Content(h, b) == IF b = NilBuffer THEN << >> ELSE h.buffers[b]

\* what a slice holds, references followed
Resolve(h, s) ==
    [k \in 1..s.len |->
        Attachment(h.arrays[s.arr][k].filename, Content(h, h.arrays[s.arr][k].content))]

\* a message as the read accessors see it
View(h, e) ==
    IF e.isNil THEN e ELSE [e EXCEPT !.attachments = Resolve(h, e.attachments)]

\* &EmailMessage{}: every field at its zero value
ZeroEmailMessage ==
    [isNil |-> FALSE, from |-> EmptyStr, to |-> << >>, cc |-> << >>, bcc |-> << >>,
     replyTo |-> EmptyStr, subject |-> EmptyStr, text |-> EmptyStr, html |-> EmptyStr,
     attachments |-> NilSlice, maxAttachmentSize |-> 0,
     textSanitizer |-> "nil", htmlSanitizer |-> "nil"]

\* append(s, a): in place while the capacity lasts, else into a new array
\* of twice the capacity (the growth of the gc runtime for small slices)
Grow(n) == IF n = 0 THEN 1 ELSE 2 * n

append(h, s, a) ==
    IF s.len < Cap(h, s)
    THEN [heap |-> [h EXCEPT !.arrays[s.arr][s.len + 1] = a],
          slice |-> Slice(s.arr, s.len + 1)]
    ELSE LET old == IF s.arr = 0 THEN << >> ELSE SubSeq(h.arrays[s.arr], 1, s.len)
             new == old \o <<a>> \o [k \in 1..(Grow(s.len) - s.len - 1) |-> ZeroAttachment]
         IN  [heap |-> [h EXCEPT !.arrays = Append(@, new)],
              slice |-> Slice(Len(h.arrays) + 1, s.len + 1)]

\* append allocates when the slice is full
Allocates(h, s) == s.len >= Cap(h, s)

\* utils.go IsHTML: the regular expression (?i)<\/?[a-z][\s\S]*>
IsHTML(str) ==
    \E i \in 1..Len(str) :
        \/ IsTag(str[i])
        \/ /\ str[i] = "<"
           /\ \E j \in (i + 1)..Len(str) :
                 /\ str[j] \in Letter
                 /\ j = i + 1 \/ (j = i + 2 /\ str[i + 1] = "/")
                 /\ \E k \in (j + 1)..Len(str) : str[k] = ">" \/ IsTag(str[k])

(***************************************************************************)
(* What the calling program has at hand.                                   *)
(***************************************************************************)
NameTxt == <<"a", ".", "t", "x", "t">>
NamePdf == <<" ", "<", ".", "P", "D", "F">>
NameLf == <<"a", "\n", "b">>

\* the caller's buffers and attachment arrays before it makes any call:
\* array 1 is full, array 2 was made with spare capacity
CallerHeap ==
    [buffers |-> << <<72>>, <<72, 105>>, <<72, 105, 33>> >>,
     arrays |-> << <<[filename |-> NameTxt, content |-> 1],
                     [filename |-> NamePdf, content |-> 3]>>,
                   <<[filename |-> NameLf, content |-> 2], ZeroAttachment>> >>]

CallerSlices == {NilSlice, Slice(1, 2), Slice(2, 1)}

SubjectEsc == <<" ", "<", "b", ">", "&", " ">>
SubjectInject == <<"H", "i", "\r", "\n", "B", "c", "c", ":", "x">>
TextLf == <<"a", "\n", "b">>
HtmlScript == <<"<p onclick=x>", "h", "<script>", "x", "</script>", "</p>">>
HtmlItalic == <<"<i>", "&", "</i>">>


\* the stored fields of a message, references followed
Stored(h, e) ==
    [from |-> e.from, to |-> e.to, cc |-> e.cc, bcc |-> e.bcc, replyTo |-> e.replyTo,
     subject |-> e.subject, text |-> e.text, html |-> e.html,
     attachments |-> Resolve(h, e.attachments),
     maxAttachmentSize |-> e.maxAttachmentSize,
     textSanitizer |-> e.textSanitizer, htmlSanitizer |-> e.htmlSanitizer]

NoRead == [email |-> 0, acc |-> "", result |-> << >>]

NoCaller ==
    [op |-> "none", on |-> 0, writes |-> 0,
     raw |-> [i \in EmailIds |-> Stored(CallerHeap, ZeroEmailMessage)],
     last |-> NoRead, got |-> NilSlice]

\* the transport is idle while the caller works on its messages
smtpVars == <<sender, call, client, wire>>

InitObjects ==
    /\ sender = NewSmtpEmailSender("127.0.0.1", 465, "user", "password", AUTH_PLAIN)
    /\ call = [c \in Calls |-> IdleCall]
    /\ client = [c \in Calls |-> NoClient]
    /\ wire = [c \in Calls |-> << >>]
    /\ emails = [i \in EmailIds |-> NilMessage]
    /\ heap = CallerHeap
    /\ caller = NoCaller

(***************************************************************************)
(* common/email.go: constructors, setters and adders.  Next to the message *)
(* the caller keeps what it passed in (raw), to compare with later.        *)
(***************************************************************************)
Raw(from, to, cc, bcc, replyTo, subject, text, html, attachments) ==
    [from |-> from, to |-> to, cc |-> cc, bcc |-> bcc, replyTo |-> replyTo,
     subject |-> subject, text |-> text, html |-> html, attachments |-> attachments,
     limit |-> "never set", textSanitizer |-> "nil", htmlSanitizer |-> "nil"]

\* a constructor returned message e to the caller, who keeps it as i
Created(i, op, e, raw) ==
    /\ emails[i].isNil
    /\ emails' = [emails EXCEPT ![i] = e]
    /\ caller' = [caller EXCEPT !.op = op, !.on = i, !.raw[i] = raw, !.last = NoRead]
    /\ UNCHANGED <<heap, smtpVars>>

\* a method of message i returned, leaving the message as e and the heap as h
Wrote(i, op, e, h, raw) ==
    /\ ~emails[i].isNil
    /\ caller.writes < MaxWrites
    /\ emails' = [emails EXCEPT ![i] = e]
    /\ heap' = h
    /\ caller' = [caller EXCEPT !.op = op, !.on = i, !.writes = @ + 1,
                                !.raw[i] = raw, !.last = NoRead]
    /\ UNCHANGED smtpVars

\* lines 89-104
NewEmailMessage(i, from, to, subject, body) ==
    LET email == [ZeroEmailMessage EXCEPT !.from = from, !.to = to, !.subject = subject,
                                          !.maxAttachmentSize = DefaultMaxAttachmentSize]
    IN  IF IsHTML(body)
        THEN Created(i, "NewEmailMessage", [email EXCEPT !.html = body],
                     Raw(from, to, << >>, << >>, EmptyStr, subject, EmptyStr, body, << >>))
        ELSE Created(i, "NewEmailMessage", [email EXCEPT !.text = body],
                     Raw(from, to, << >>, << >>, EmptyStr, subject, body, EmptyStr, << >>))

\* lines 121-134
NewFullEmailMessage(i, from, to, subject, cc, bcc, replyTo, textBody, htmlBody, attachments) ==
    Created(i, "NewFullEmailMessage",
            [isNil |-> FALSE, from |-> from, to |-> to, cc |-> cc, bcc |-> bcc,
             replyTo |-> replyTo, subject |-> subject, text |-> textBody,
             html |-> htmlBody, attachments |-> attachments,
             maxAttachmentSize |-> DefaultMaxAttachmentSize,
             textSanitizer |-> "nil", htmlSanitizer |-> "nil"],
            Raw(from, to, cc, bcc, replyTo, subject, textBody, htmlBody,
                Resolve(heap, attachments)))

\* &EmailMessage{}, or var email EmailMessage
NewZeroEmailMessage(i) ==
    Created(i, "EmailMessage{}", ZeroEmailMessage,
            Raw(EmptyStr, << >>, << >>, << >>, EmptyStr, EmptyStr, EmptyStr, EmptyStr, << >>))

SetFrom(i, from) ==
    Wrote(i, "SetFrom", [emails[i] EXCEPT !.from = from], heap,
          [caller.raw[i] EXCEPT !.from = from])

SetSubject(i, subject) ==
    Wrote(i, "SetSubject", [emails[i] EXCEPT !.subject = subject], heap,
          [caller.raw[i] EXCEPT !.subject = subject])

SetTo(i, to) ==
    Wrote(i, "SetTo", [emails[i] EXCEPT !.to = to], heap,
          [caller.raw[i] EXCEPT !.to = to])

SetCC(i, cc) ==
    Wrote(i, "SetCC", [emails[i] EXCEPT !.cc = cc], heap,
          [caller.raw[i] EXCEPT !.cc = cc])

SetBCC(i, bcc) ==
    Wrote(i, "SetBCC", [emails[i] EXCEPT !.bcc = bcc], heap,
          [caller.raw[i] EXCEPT !.bcc = bcc])

SetReplyTo(i, replyTo) ==
    Wrote(i, "SetReplyTo", [emails[i] EXCEPT !.replyTo = replyTo], heap,
          [caller.raw[i] EXCEPT !.replyTo = replyTo])

SetText(i, text) ==
    Wrote(i, "SetText", [emails[i] EXCEPT !.text = text], heap,
          [caller.raw[i] EXCEPT !.text = text])

SetHTML(i, html) ==
    Wrote(i, "SetHTML", [emails[i] EXCEPT !.html = html], heap,
          [caller.raw[i] EXCEPT !.html = html])

\* lines 239-242: the slice is stored as it was passed
SetAttachments(i, attachments) ==
    Wrote(i, "SetAttachments", [emails[i] EXCEPT !.attachments = attachments], heap,
          [caller.raw[i] EXCEPT !.attachments = Resolve(heap, attachments)])

AddToRecipient(i, recipient) ==
    Wrote(i, "AddToRecipient", [emails[i] EXCEPT !.to = Append(@, recipient)], heap,
          [caller.raw[i] EXCEPT !.to = Append(@, recipient)])

AddCCRecipient(i, recipient) ==
    Wrote(i, "AddCCRecipient", [emails[i] EXCEPT !.cc = Append(@, recipient)], heap,
          [caller.raw[i] EXCEPT !.cc = Append(@, recipient)])

AddBCCRecipient(i, recipient) ==
    Wrote(i, "AddBCCRecipient", [emails[i] EXCEPT !.bcc = Append(@, recipient)], heap,
          [caller.raw[i] EXCEPT !.bcc = Append(@, recipient)])

\* lines 287-290: append to the stored slice
AddAttachment(i, attachment) ==
    /\ ~emails[i].isNil
    /\ Allocates(heap, emails[i].attachments) => Len(heap.arrays) < MaxArrays
    /\ LET r == append(heap, emails[i].attachments, attachment)
       IN  Wrote(i, "AddAttachment", [emails[i] EXCEPT !.attachments = r.slice], r.heap,
                 [caller.raw[i] EXCEPT !.attachments =
                     Append(@, Attachment(attachment.filename,
                                          Content(heap, attachment.content)))])

\* lines 405-408
SetMaxAttachmentSize(i, size) ==
    Wrote(i, "SetMaxAttachmentSize", [emails[i] EXCEPT !.maxAttachmentSize = size], heap,
          [caller.raw[i] EXCEPT !.limit = size])

\* lines 444-447
SetCustomTextSanitizer(i, s) ==
    Wrote(i, "SetCustomTextSanitizer", [emails[i] EXCEPT !.textSanitizer = s], heap,
          [caller.raw[i] EXCEPT !.textSanitizer = s])

\* a setter that installs the sanitizer for both kinds of content
SetCustomHtmlSanitizerForAll(i, s) ==
    Wrote(i, "SetCustomHtmlSanitizer",
          [emails[i] EXCEPT !.htmlSanitizer = s, !.textSanitizer = s], heap,
          [caller.raw[i] EXCEPT !.htmlSanitizer = s])

\* lines 459-462
SetCustomHtmlSanitizer(i, s) ==
    Wrote(i, "SetCustomHtmlSanitizer", [emails[i] EXCEPT !.htmlSanitizer = s], heap,
          [caller.raw[i] EXCEPT !.htmlSanitizer = s])

(***************************************************************************)
(* JSON.  A document is what encoding/json makes of the bytes: nothing,    *)
(* when they are not a JSON object of the expected types, or the fields of *)
(* jsonEmailMessage, the content of each attachment in base64.             *)
(***************************************************************************)
InAlphabet(ch) == \E n \in 1..64 : Base64Alphabet[n] = ch
B64Index(ch) == CHOOSE n \in 0..63 : Base64Alphabet[n + 1] = ch

BadBase64 == [ok |-> FALSE, bytes |-> << >>]

\* base64.StdEncoding.DecodeString: groups of four characters, padded
RECURSIVE Base64Decode(_)
Base64Decode(str) ==
    IF str = << >> THEN [ok |-> TRUE, bytes |-> << >>]
    ELSE IF Len(str) < 4 \/ ~InAlphabet(str[1]) \/ ~InAlphabet(str[2]) THEN BadBase64
    ELSE LET a == B64Index(str[1])
             b == B64Index(str[2])
             last == Len(str) = 4
         IN  IF str[3] = "="
             THEN IF last /\ str[4] = "="
                  THEN [ok |-> TRUE, bytes |-> <<a * 4 + b \div 16>>]
                  ELSE BadBase64
             ELSE IF ~InAlphabet(str[3]) THEN BadBase64
             ELSE LET c == B64Index(str[3]) IN
                  IF str[4] = "="
                  THEN IF last
                       THEN [ok |-> TRUE,
                             bytes |-> <<a * 4 + b \div 16, (b % 16) * 16 + c \div 4>>]
                       ELSE BadBase64
                  ELSE IF ~InAlphabet(str[4]) THEN BadBase64
                  ELSE LET rest == Base64Decode(SubSeq(str, 5, Len(str)))
                       IN  IF ~rest.ok THEN BadBase64
                           ELSE [ok |-> TRUE,
                                 bytes |-> <<a * 4 + b \div 16, (b % 16) * 16 + c \div 4,
                                             (c % 4) * 64 + B64Index(str[4])>> \o rest.bytes]

Malformed == [ok |-> FALSE]

jsonEmailMessage(From, To, CC, BCC, ReplyTo, Subject, Text, HTML, Attachments) ==
    [ok |-> TRUE, From |-> From, To |-> To, CC |-> CC, BCC |-> BCC, ReplyTo |-> ReplyTo,
     Subject |-> Subject, Text |-> Text, HTML |-> HTML, Attachments |-> Attachments]

jsonAttachment(filename, content) == [Filename |-> filename, Content |-> content]

\* the documents the caller unmarshals
JsonDocs ==
    {Malformed,
     jsonEmailMessage(AddrB, <<AddrA>>, << >>, << >>, EmptyStr, SubjectEsc, TextHello,
                      EmptyStr, << >>),
     jsonEmailMessage(AddrFrom, <<AddrA>>, << >>, <<AddrB>>, EmptyStr, SubjectHi, TextHello,
                      HtmlItalic, <<jsonAttachment(NameTxt, <<"S", "G", "k", "=">>)>>)}

\* Attachment.UnmarshalJSON for each element of the array: the decoded
\* contents, or a failure
DecodeAll(atts) == [k \in 1..Len(atts) |-> Base64Decode(atts[k].Content)]

\* lines 532-552: on a failure of json.Unmarshal nothing is assigned;
\* otherwise the limit is reset and every field is taken from the document,
\* the attachments in an array and in buffers of their own
UnmarshalJSON(i, data) ==
    IF ~data.ok \/ \E k \in 1..Len(data.Attachments) : ~DecodeAll(data.Attachments)[k].ok
    THEN /\ ~emails[i].isNil
         /\ Wrote(i, "UnmarshalJSON", emails[i], heap, caller.raw[i])
    ELSE LET n == Len(data.Attachments)
             decoded == DecodeAll(data.Attachments)
             base == Len(heap.buffers)
             array == [k \in 1..n |-> [filename |-> data.Attachments[k].Filename,
                                       content |-> base + k]]
             h == IF n = 0 THEN heap
                  ELSE [arrays |-> Append(heap.arrays, array),
                        buffers |-> heap.buffers \o [k \in 1..n |-> decoded[k].bytes]]
             slice == IF n = 0 THEN NilSlice ELSE Slice(Len(heap.arrays) + 1, n)
         IN  /\ ~emails[i].isNil
             /\ n > 0 => Len(heap.arrays) < MaxArrays
             /\ Wrote(i, "UnmarshalJSON",
                      [emails[i] EXCEPT !.maxAttachmentSize = DefaultMaxAttachmentSize,
                                        !.from = data.From, !.to = data.To, !.cc = data.CC,
                                        !.bcc = data.BCC, !.replyTo = data.ReplyTo,
                                        !.subject = data.Subject, !.text = data.Text,
                                        !.html = data.HTML, !.attachments = slice],
                      h,
                      [caller.raw[i] EXCEPT
                          !.from = data.From, !.to = data.To, !.cc = data.CC,
                          !.bcc = data.BCC, !.replyTo = data.ReplyTo,
                          !.subject = data.Subject, !.text = data.Text, !.html = data.HTML,
                          !.attachments = [k \in 1..n |->
                              Attachment(data.Attachments[k].Filename, decoded[k].bytes)]])

(***************************************************************************)
(* common/email.go: the read accessors and BuildMimeMessage, as calls.     *)
(***************************************************************************)
Accessors ==
    {"GetFrom", "GetTo", "GetCC", "GetBCC", "GetReplyTo",
     "GetSubject", "GetText", "GetHTML", "GetAttachments"}

Accessor(acc, e) ==
    CASE acc = "GetFrom" -> GetFrom(e)
      [] acc = "GetTo" -> GetTo(e)
      [] acc = "GetCC" -> GetCC(e)
      [] acc = "GetBCC" -> GetBCC(e)
      [] acc = "GetReplyTo" -> GetReplyTo(e)
      [] acc = "GetSubject" -> GetSubject(e)
      [] acc = "GetText" -> GetText(e)
      [] acc = "GetHTML" -> GetHTML(e)
      [] acc = "GetAttachments" -> GetAttachments(e)

\* accessors that keep what they computed in the field they read
ReadCaching(i, acc) ==
    /\ acc # "GetAttachments"
    /\ caller' = [caller EXCEPT !.op = acc, !.on = i,
                     !.last = [email |-> i, acc |-> acc,
                               result |-> Accessor(acc, View(heap, emails[i]))]]
    /\ emails' = IF emails[i].isNil THEN emails
                 ELSE [emails EXCEPT ![i] =
                         CASE acc = "GetFrom" -> [@ EXCEPT !.from = GetFrom(emails[i])]
                           [] acc = "GetTo" -> [@ EXCEPT !.to = GetTo(emails[i])]
                           [] acc = "GetSubject" -> [@ EXCEPT !.subject = GetSubject(emails[i])]
                           [] acc = "GetText" -> [@ EXCEPT !.text = GetText(emails[i])]
                           [] acc = "GetHTML" -> [@ EXCEPT !.html = GetHTML(emails[i])]
                           [] OTHER -> @]
    /\ UNCHANGED <<heap, smtpVars>>

\* lines 297-396: a read accessor returns its value; the receiver may be nil
Read(i, acc) ==
    /\ acc # "GetAttachments"
    /\ caller' = [caller EXCEPT !.op = acc, !.on = i,
                     !.last = [email |-> i, acc |-> acc,
                               result |-> Accessor(acc, View(heap, emails[i]))]]
    /\ UNCHANGED <<emails, heap, smtpVars>>

\* the smallest capacity repeated appends from nil reach for n elements
RECURSIVE CapFor(_, _)
CapFor(n, cap) == IF n <= cap THEN cap ELSE CapFor(n, Grow(cap))

\* a limit that excludes an attachment of exactly the limit's size
ValidBelow(h, e) ==
    SelectSeq(SubSeq(h.arrays[e.attachments.arr], 1, e.attachments.len),
              LAMBDA a : Len(Content(h, a.content)) < e.maxAttachmentSize)

\* the structs of the stored slice that pass the size limit
Valid(h, e) ==
    SelectSeq(SubSeq(h.arrays[e.attachments.arr], 1, e.attachments.len),
              LAMBDA a : Len(Content(h, a.content)) <= e.maxAttachmentSize)

\* lines 416-432: GetAttachments returns the stored slice itself when the
\* limit is negative, else a slice of its own with copies of the structs
ReadAttachments(i) ==
    LET e == emails[i]
        valid == IF e.isNil \/ e.maxAttachmentSize < 0 \/ e.attachments.len = 0
                 THEN << >> ELSE Valid(heap, e)
        fresh == valid # << >>
        got == IF e.isNil THEN NilSlice
               ELSE IF e.maxAttachmentSize < 0 THEN e.attachments
               ELSE IF fresh THEN Slice(Len(heap.arrays) + 1, Len(valid))
               ELSE NilSlice
    IN  /\ fresh => Len(heap.arrays) < MaxArrays
        /\ heap' = IF fresh
                   THEN [heap EXCEPT !.arrays = Append(@,
                           valid \o [k \in 1..(CapFor(Len(valid), 0) - Len(valid)) |->
                                        ZeroAttachment])]
                   ELSE heap
        /\ caller' = [caller EXCEPT !.op = "GetAttachments", !.on = i, !.got = got,
                         !.last = [email |-> i, acc |-> "GetAttachments",
                                   result |-> Resolve(heap', got)]]
        /\ UNCHANGED <<emails, smtpVars>>

\* the clock BuildMimeMessage reads twice
Clock == {1, 2}

\* lines 581-666
Build(i, now1, now2) ==
    /\ now1 <= now2
    /\ caller' = [caller EXCEPT !.op = "BuildMimeMessage", !.on = i,
                     !.last = [email |-> i, acc |-> "BuildMimeMessage",
                               result |-> BuildMimeMessage(View(heap, emails[i]), now1, now2)]]
    /\ UNCHANGED <<emails, heap, smtpVars>>

(***************************************************************************)
(* One message in the hands of a caller: it is made, then written and read *)
(* in any order.                                                           *)
(***************************************************************************)
\* the structs the caller can pass to AddAttachment
CallerAttachments == {CallerHeap.arrays[1][2], CallerHeap.arrays[2][1]}

Construct(i) ==
    \/ \E body \in {TextHello, HtmlScript} :
          NewEmailMessage(i, AddrFrom, <<AddrA>>, SubjectHi, body)
    \/ \E attachments \in {NilSlice, Slice(2, 1)} :
          NewFullEmailMessage(i, AddrFrom, <<AddrA>>, SubjectHi, << >>, <<AddrB>>,
                              AddrBad, TextHello, HtmlItalic, attachments)
    \/ NewZeroEmailMessage(i)

SetField(i) ==
    \/ SetFrom(i, AddrBad)
    \/ SetSubject(i, SubjectEsc)
    \/ SetTo(i, <<AddrBad, AddrB>>)
    \/ SetCC(i, <<AddrA>>)
    \/ SetBCC(i, <<AddrA>>)
    \/ SetReplyTo(i, AddrB)
    \/ SetText(i, SubjectEsc)
    \/ SetHTML(i, HtmlScript)
    \/ AddToRecipient(i, AddrB)
    \/ AddCCRecipient(i, AddrB)
    \/ AddBCCRecipient(i, AddrBad)

SetSanitizer(i) ==
    \/ \E s \in {"non", "nil"} : SetCustomTextSanitizer(i, s)
    \/ \E s \in {"non", "nil"} : SetCustomHtmlSanitizer(i, s)

SetAttachmentList(i) ==
    \/ SetAttachments(i, Slice(1, 2))
    \/ AddAttachment(i, CallerHeap.arrays[1][2])
    \/ \E size \in {-1, 1} : SetMaxAttachmentSize(i, size)

ReadAny(i) ==
    \/ \E acc \in Accessors : Read(i, acc)
    \/ ReadAttachments(i)
    \/ \E now2 \in Clock : Build(i, 1, now2)

NextMsg ==
    \/ Construct(1)
    \/ \E data \in JsonDocs : UnmarshalJSON(1, data)
    \/ SetField(1)
    \/ SetSanitizer(1)
    \/ SetAttachmentList(1)
    \/ ReadAny(1)

SpecMsg == InitObjects /\ [][NextMsg]_vars

(***************************************************************************)
(* C11.  The stored fields of a message are always the raw values the      *)
(* caller last wrote; a read accessor or BuildMimeMessage leaves every     *)
(* stored field of every message as it was; and an accessor called again   *)
(* with no write in between returns what it returned before.               *)
(***************************************************************************)
Values(r) ==
    [from |-> r.from, to |-> r.to, cc |-> r.cc, bcc |-> r.bcc, replyTo |-> r.replyTo,
     subject |-> r.subject, text |-> r.text, html |-> r.html,
     attachments |-> r.attachments]

StoredIsRaw ==
    \A i \in EmailIds :
        ~emails[i].isNil => Values(Stored(heap, emails[i])) = Values(caller.raw[i])

ReadStep ==
    /\ caller'.op \in Accessors \cup {"BuildMimeMessage"}
    /\ caller'.last # NoRead
    /\ caller'.writes = caller.writes

ReadsKeepFields ==
    ReadStep =>
        \A i \in EmailIds :
            /\ emails'[i].isNil = emails[i].isNil
            /\ ~emails[i].isNil => Stored(heap', emails'[i]) = Stored(heap, emails[i])

RepeatedRead ==
    (ReadStep /\ caller'.last.acc \in Accessors
              /\ caller.last.acc = caller'.last.acc
              /\ caller.last.email = caller'.last.email) =>
        caller'.last.result = caller.last.result

C11_ReadsLeaveStoredFields ==
    /\ []StoredIsRaw
    /\ [][ReadsKeepFields /\ RepeatedRead]_vars

C11_Witness ==
    /\ caller.writes >= 2
    /\ ~emails[1].isNil
    /\ caller.last.acc = "GetSubject"
    /\ caller.last.result # caller.raw[1].subject
    /\ emails[1].subject = SubjectEsc

(***************************************************************************)
(* C12.  What GetAttachments returned is, for a limit N >= 0, the stored   *)
(* attachments of at most N bytes, one of exactly N bytes included, in the *)
(* stored order and with their whole content; for a negative limit it is   *)
(* the stored list.                                                        *)
(***************************************************************************)
RECURSIVE Kept(_, _)
Kept(atts, n) ==
    IF atts = << >> THEN << >>
    ELSE (IF Len(atts[1].content) > n THEN << >> ELSE <<atts[1]>>) \o Kept(Tail(atts), n)

C12_AttachmentsWithinLimit ==
    \A i \in EmailIds :
        (caller.last.acc = "GetAttachments" /\ caller.last.email = i /\ ~emails[i].isNil) =>
            LET stored == Stored(heap, emails[i]).attachments
                n == emails[i].maxAttachmentSize
            IN  caller.last.result = IF n < 0 THEN stored ELSE Kept(stored, n)

C12_Witness ==
    /\ caller.last.acc = "GetAttachments"
    /\ ~emails[1].isNil
    /\ emails[1].maxAttachmentSize = 1
    /\ Len(caller.last.result) = 1
    /\ Len(caller.last.result[1].content) = 1
    /\ emails[1].attachments.len = 2

(***************************************************************************)
(* C13.  A message on which SetMaxAttachmentSize was never called has the  *)
(* default limit of 25 MiB, whichever way it was made: by NewEmailMessage, *)
(* by NewFullEmailMessage, by UnmarshalJSON, or as the zero value.         *)
(***************************************************************************)
C13_DefaultLimit ==
    \A i \in EmailIds :
        (~emails[i].isNil /\ caller.raw[i].limit = "never set") =>
            emails[i].maxAttachmentSize = 26214400

(***************************************************************************)
(* C14.  GetSubject and GetText return the text sanitizer set last applied *)
(* to the raw value, the default escape sanitizer when none or nil was     *)
(* set; GetHTML returns the HTML sanitizer set last applied to the raw     *)
(* HTML, the default allow-list sanitizer when none or nil was set.        *)
(* Setting one of the two sanitizers leaves what the accessors of the      *)
(* other return as it was.                                                 *)
(***************************************************************************)
Chosen(name, default) == IF name = "nil" THEN default ELSE name

SanitizedAsSet ==
    \A i \in EmailIds :
        (caller.last.email = i /\ ~emails[i].isNil) =>
            LET raw == caller.raw[i]
                T == Chosen(raw.textSanitizer, "text")
                H == Chosen(raw.htmlSanitizer, "html")
            IN  /\ caller.last.acc = "GetSubject" =>
                      caller.last.result = Sanitize(T, raw.subject)
                /\ caller.last.acc = "GetText" =>
                      caller.last.result = Sanitize(T, raw.text)
                /\ caller.last.acc = "GetHTML" =>
                      caller.last.result = Sanitize(H, raw.html)

SanitizersApart ==
    \A i \in EmailIds :
        (~emails[i].isNil /\ caller'.on = i /\ caller'.writes = caller.writes + 1) =>
            LET before == View(heap, emails[i])
                after == View(heap', emails'[i])
            IN  /\ caller'.op = "SetCustomTextSanitizer" =>
                      GetHTML(after) = GetHTML(before)
                /\ caller'.op = "SetCustomHtmlSanitizer" =>
                      /\ GetSubject(after) = GetSubject(before)
                      /\ GetText(after) = GetText(before)

C14_SanitizerLastSet ==
    /\ []SanitizedAsSet
    /\ [][SanitizersApart]_vars

C14_Witness ==
    /\ ~emails[1].isNil
    /\ caller.last.acc = "GetSubject"
    /\ caller.raw[1].htmlSanitizer = "non"
    /\ caller.raw[1].textSanitizer = "nil"
    /\ caller.raw[1].subject = SubjectEsc
    /\ caller.last.result # SubjectEsc

(***************************************************************************)
(* C14, second witness of the same property: the pass-through sanitizer,   *)
(* once set, is what the text accessors apply.                             *)
(***************************************************************************)
C14_PassThroughSet ==
    /\ ~emails[1].isNil
    /\ caller.last.acc = "GetText"
    /\ caller.raw[1].textSanitizer = "non"
    /\ caller.last.result = SubjectEsc

(***************************************************************************)
(* Attachments in the hands of a caller with two messages.  The caller     *)
(* holds the slices and buffers it made and the slice GetAttachments       *)
(* returned last; it can store into them, and it can call the setters of   *)
(* the attachments in them.                                                *)
(***************************************************************************)
\* the non-empty slices the caller holds
Held == {s \in (CallerSlices \cup {caller.got}) : s.len > 0}

\* the buffers the caller holds: its own, and what GetRawContent returns
\* for the attachments of the slices it holds
HeldBuffers ==
    {b \in 1..Len(heap.buffers) :
        \/ b \in 1..Len(CallerHeap.buffers)
        \/ \E s \in Held : \E k \in 1..s.len : heap.arrays[s.arr][k].content = b}

\* a statement or a call of the caller that is not a method of a message
Did(op, h) ==
    /\ caller.writes < MaxWrites
    /\ heap' = h
    /\ caller' = [caller EXCEPT !.op = op, !.on = 0, !.writes = @ + 1, !.last = NoRead]
    /\ UNCHANGED <<emails, smtpVars>>

\* attachments[k] = a
StoreElement(s, k, a) ==
    /\ s \in Held /\ k \in 1..s.len
    /\ Did("attachments[k] = a", [heap EXCEPT !.arrays[s.arr][k] = a])

\* content[0] = v
StoreByte(b, v) ==
    /\ b \in HeldBuffers /\ heap.buffers[b] # << >>
    /\ Did("content[0] = v", [heap EXCEPT !.buffers[b][1] = v])

\* Attachment.SetFilename (lines 76-78), called on &attachments[k]
SetFilename(s, k, filename) ==
    /\ s \in Held /\ k \in 1..s.len
    /\ Did("SetFilename", [heap EXCEPT !.arrays[s.arr][k].filename = filename])

\* Attachment.SetContent (lines 115-117), called on &attachments[k]
SetContent(s, k, content) ==
    /\ s \in Held /\ k \in 1..s.len
    /\ Did("SetContent", [heap EXCEPT !.arrays[s.arr][k].content = content])

NextAtt ==
    \/ \E i \in EmailIds, attachments \in {Slice(1, 2), Slice(2, 1)} :
          NewFullEmailMessage(i, AddrFrom, <<AddrA>>, SubjectHi, << >>, << >>, EmptyStr,
                              TextHello, EmptyStr, attachments)
    \/ \E i \in EmailIds : SetAttachments(i, Slice(2, 1))
    \/ \E i \in EmailIds, a \in CallerAttachments : AddAttachment(i, a)
    \/ \E i \in EmailIds : SetMaxAttachmentSize(i, -1)
    \/ \E i \in EmailIds : ReadAttachments(i)
    \/ \E s \in Held, k \in 1..2 : StoreElement(s, k, CallerHeap.arrays[2][1])
    \/ \E b \in HeldBuffers : StoreByte(b, 88)
    \/ \E s \in Held, k \in 1..2 : SetFilename(s, k, NamePdf)
    \/ \E s \in Held, k \in 1..2 : SetContent(s, k, 1)

SpecAtt == InitObjects /\ [][NextAtt]_vars

(***************************************************************************)
(* C15.  What GetAttachments returns for a message changes only by a       *)
(* writing call on that message: no store of the caller into a slice or a  *)
(* buffer it passed in or was returned, no call on an attachment it holds  *)
(* and no call on another message changes it.                              *)
(***************************************************************************)
WritesOn(i) == caller'.on = i /\ caller'.writes = caller.writes + 1

AttachmentsKept(i) ==
    GetAttachments(View(heap', emails'[i])) = GetAttachments(View(heap, emails[i]))

C15_AttachmentsOwned ==
    [][\A i \in EmailIds :
          (~emails[i].isNil /\ ~WritesOn(i)) => AttachmentsKept(i)]_vars

(***************************************************************************)
(* C16.  No call of the public interface changes the filename or the       *)
(* content of an attachment that has been constructed.                     *)
(***************************************************************************)
GoStatements == {"attachments[k] = a", "content[0] = v"}

SameAttachment(arr, k) ==
    /\ heap'.arrays[arr][k].filename = heap.arrays[arr][k].filename
    /\ Content(heap', heap'.arrays[arr][k].content)
          = Content(heap, heap.arrays[arr][k].content)

C16_AttachmentImmutable ==
    [][caller'.op \notin GoStatements =>
          \A arr \in 1..Len(heap.arrays) : \A k \in 1..Len(heap.arrays[arr]) :
              heap.arrays[arr][k] # ZeroAttachment => SameAttachment(arr, k)]_vars

(***************************************************************************)
(* BuildMimeMessage on any message.  The caller has made message 1 with    *)
(* NewFullEmailMessage and the setters, or holds a nil message, and has it *)
(* serialized.                                                             *)
(***************************************************************************)
MimeFroms == {AddrFrom, AddrBad, EmptyStr}
MimeLists == {<< >>, <<AddrA, AddrB>>, <<AddrBad>>}
MimeSubjects == {SubjectHi, SubjectEsc, SubjectInject}
MimeTexts == {EmptyStr, TextHello, TextLf}
MimeHtmls == {EmptyStr, HtmlItalic}
MimeLimits == {DefaultMaxAttachmentSize, 1, -1}

MimeMessages ==
    {NilMessage} \cup
    {[isNil |-> FALSE, from |-> from, to |-> to, cc |-> cc, bcc |-> << >>,
      replyTo |-> replyTo, subject |-> subject, text |-> text, html |-> html,
      attachments |-> attachments, maxAttachmentSize |-> limit,
      textSanitizer |-> textSanitizer, htmlSanitizer |-> "nil"] :
        from \in MimeFroms, to \in MimeLists, cc \in {<< >>, <<AddrB>>},
        replyTo \in {EmptyStr, AddrB}, subject \in MimeSubjects, text \in MimeTexts,
        html \in MimeHtmls, attachments \in CallerSlices, limit \in MimeLimits,
        textSanitizer \in {"nil", "non"}}

InitMime ==
    /\ sender = NewSmtpEmailSender("127.0.0.1", 465, "user", "password", AUTH_PLAIN)
    /\ call = [c \in Calls |-> IdleCall]
    /\ client = [c \in Calls |-> NoClient]
    /\ wire = [c \in Calls |-> << >>]
    /\ heap = CallerHeap
    /\ \E e \in MimeMessages : emails = [i \in EmailIds |-> IF i = 1 THEN e ELSE NilMessage]
    /\ caller = NoCaller

NextMime == \E now1, now2 \in Clock : Build(1, now1, now2)

SpecMime == InitMime /\ [][NextMime]_vars

\* the message that was serialized last, and the lines written for it
Built == caller.last.acc = "BuildMimeMessage"
BuiltFrom == View(heap, emails[caller.last.email])
BuiltLines == caller.last.result

(***************************************************************************)
(* C17.  In what BuildMimeMessage wrote, every From and Reply-To header    *)
(* carries one address that ValidateEmail accepts, every To and Cc header  *)
(* a comma-separated list of such addresses, and the From header is not    *)
(* empty.                                                                  *)
(***************************************************************************)
Accepted(addr) == addr # EmptyStr /\ ValidateEmail(addr) = addr

HeaderWellFormed(line) ==
    /\ line[1] \in {"From: ", "Reply-To: "} => Accepted(Tail(line))
    /\ line[1] \in {"To: ", "Cc: "} =>
          \A addr \in Range(Split(Tail(line), ",")) : Accepted(addr)

C17_AddressHeadersWellFormed ==
    Built =>
        \A k \in 1..Len(HeaderSection(BuiltLines)) :
            HeaderWellFormed(HeaderSection(BuiltLines)[k])

(***************************************************************************)
(* C18.  In the bytes BuildMimeMessage returned, every LF comes directly   *)
(* after a CR.                                                             *)
(***************************************************************************)
OnlyCRLF(bytes) ==
    \A p \in 1..Len(bytes) : bytes[p] = "\n" => (p > 1 /\ bytes[p - 1] = "\r")

C18_LineTerminatorsCRLF == Built => OnlyCRLF(Bytes(BuiltLines))

(***************************************************************************)
(* C19.  With the default sanitizers, the subject BuildMimeMessage wrote   *)
(* holds no CR and no LF: read as CRLF-terminated lines, the header        *)
(* section has one Subject line, and MIME-Version is the line after it.    *)
(***************************************************************************)
\* the lines a reader takes from what was written as one line: it ends a
\* line at every CRLF, those inside what was written included
RECURSIVE SplitCRLF(_, _)
SplitCRLF(str, cur) ==
    IF str = << >> THEN <<cur>>
    ELSE IF Len(str) >= 2 /\ str[1] = "\r" /\ str[2] = "\n"
         THEN <<cur>> \o SplitCRLF(SubSeq(str, 3, Len(str)), << >>)
         ELSE SplitCRLF(Tail(str), Append(cur, Head(str)))

\* the lines a reader takes from the bytes of a serialized message
RECURSIVE ReadLines(_)
ReadLines(lines) ==
    IF lines = << >> THEN << >>
    ELSE SplitCRLF(Head(lines), << >>) \o ReadLines(Tail(lines))

DefaultSanitizers(e) == e.isNil \/ (e.textSanitizer = "nil" /\ e.htmlSanitizer = "nil")

SubjectIsOneLine(lines) ==
    LET hdr == HeaderSection(ReadLines(lines))
        at == {k \in 1..Len(hdr) : hdr[k][1] = "Subject: "}
    IN  /\ \E k \in 1..Len(hdr) : at = {k}
        /\ \A k \in at :
              /\ validateLine(hdr[k])
              /\ k < Len(hdr) /\ hdr[k + 1] = <<"MIME-Version: 1.0">>

C19_SubjectCannotInject ==
    (Built /\ DefaultSanitizers(BuiltFrom)) =>
        /\ validateLine(GetSubject(BuiltFrom))
        /\ SubjectIsOneLine(BuiltLines)

(***************************************************************************)
(* C20, as stated.  What BuildMimeMessage wrote for a message that holds   *)
(* one or more attachments is a multipart/mixed whose first part is the    *)
(* multipart/alternative, followed by the attachment parts; for a message  *)
(* that holds none it is a multipart/alternative with no attachment part   *)
(* and no mixed boundary.                                                  *)
(***************************************************************************)
TopLevel(lines) ==
    LET hdr == HeaderSection(lines) IN
    IF hdr = << >> THEN "" ELSE hdr[Len(hdr)][1]

AttachmentPartsIn(lines) ==
    SelectSeq(lines, LAMBDA l : l # << >> /\ l[1] = "Content-Disposition: attachment; filename=\"")

MentionsMixed(lines) ==
    \E k \in 1..Len(lines) : \E p \in 1..Len(lines[k]) :
        lines[k][p] \in {"mixed-boundary-", "Content-Type: multipart/mixed; boundary="}

IsMixed(lines, n) ==
    LET h == Len(HeaderSection(lines))
        open == lines[h + 2]
    IN  /\ TopLevel(lines) = "Content-Type: multipart/mixed; boundary="
        /\ Len(lines) >= h + 5
        /\ Len(open) = 3 /\ open[1] = "--" /\ open[2] = "mixed-boundary-"
        /\ lines[h][2] = "mixed-boundary-" /\ lines[h][3] = open[3]
        /\ lines[h + 3][1] = "Content-Type: multipart/alternative; boundary="
        /\ lines[h + 4] = << >>
        /\ lines[Len(lines)] = open \o <<"--">>
        /\ Len(AttachmentPartsIn(lines)) = n

IsAlternative(lines) ==
    /\ TopLevel(lines) = "Content-Type: multipart/alternative; boundary="
    /\ AttachmentPartsIn(lines) = << >>
    /\ ~MentionsMixed(lines)

StructureFor(lines, attachments) ==
    IF Len(attachments) > 0 THEN IsMixed(lines, Len(attachments)) ELSE IsAlternative(lines)

Holds(e) == IF e.isNil THEN << >> ELSE e.attachments

C20_MixedIffAttachments == Built => StructureFor(BuiltLines, Holds(BuiltFrom))

(***************************************************************************)
(* C20, amended.  The attachments that count are those GetAttachments      *)
(* returns, the ones within the size limit: with one or more of them the   *)
(* output is a multipart/mixed whose first part is the                     *)
(* multipart/alternative, followed by one part for each of them; with none *)
(* of them, whatever the message holds, it is a multipart/alternative with *)
(* no attachment part and no mixed boundary.                               *)
(***************************************************************************)
C20_MixedIffAttachmentsReturned ==
    Built => StructureFor(BuiltLines, GetAttachments(BuiltFrom))

C20_Witness ==
    /\ Built /\ ~BuiltFrom.isNil
    /\ Len(BuiltFrom.attachments) = 2
    /\ Len(GetAttachments(BuiltFrom)) = 1
    /\ IsMixed(BuiltLines, 1)

(***************************************************************************)
(* C21.  For a message whose sanitized text and HTML are not empty and for *)
(* which GetAttachments returns attachments, BuildMimeMessage wrote: the   *)
(* multipart/mixed boundary once in a Content-Type header, its closing     *)
(* delimiter once, as the last line; the multipart/alternative boundary    *)
(* once in a Content-Type header, its closing delimiter once, before the   *)
(* first attachment part; one text/plain part and one text/html part; and  *)
(* for the k-th attachment returned the k-th attachment part, with its     *)
(* sanitized filename in Content-Disposition and a body that base64        *)
(* decoding turns into its content.                                        *)
(***************************************************************************)
\* the positions of the lines that satisfy Test, in order
At(lines, Test(_)) == SelectSeq([k \in 1..Len(lines) |-> k], LAMBDA k : Test(lines[k]))

Starts(line, chunk) == line # << >> /\ line[1] = chunk
Declares(line, kind) ==
    Starts(line, kind) /\ Len(line) = 3
IsDelimiter(line, prefix) ==
    Len(line) = 3 /\ line[1] = "--" /\ line[2] = prefix
IsClosing(line, prefix) ==
    Len(line) = 4 /\ line[1] = "--" /\ line[2] = prefix /\ line[4] = "--"
IsDisposition(line) == Starts(line, "Content-Disposition: attachment; filename=\"")

OnePair(lines, kind, prefix) ==
    LET decl == At(lines, LAMBDA l : Declares(l, kind))
        close == At(lines, LAMBDA l : IsClosing(l, prefix))
    IN  /\ Len(decl) = 1 /\ Len(close) = 1
        /\ lines[decl[1]][2] = prefix
        /\ lines[close[1]][3] = lines[decl[1]][3]
        /\ decl[1] < close[1]
        /\ \A k \in 1..Len(lines) :
              IsDelimiter(lines[k], prefix) =>
                  (decl[1] < k /\ k < close[1] /\ lines[k][3] = lines[decl[1]][3])

AttachmentPartAt(lines, k, attachment) ==
    /\ k + 2 <= Len(lines) /\ k > 3
    /\ IsDelimiter(lines[k - 3], "mixed-boundary-")
    /\ lines[k - 2] = <<"Content-Type: ">> \o GetMimeType(GetFilename(attachment))
    /\ lines[k - 1] = <<"Content-Transfer-Encoding: base64">>
    /\ lines[k] = <<"Content-Disposition: attachment; filename=\"">>
                     \o GetFilename(attachment) \o <<"\"">>
    /\ lines[k + 1] = << >>
    /\ Base64Decode(lines[k + 2]).ok
    /\ Base64Decode(lines[k + 2]).bytes = attachment.content

FullStructure(lines, attachments) ==
    LET parts == At(lines, IsDisposition)
        plain == At(lines, LAMBDA l : l = <<"Content-Type: text/plain; charset=UTF-8">>)
        html == At(lines, LAMBDA l : l = <<"Content-Type: text/html; charset=UTF-8">>)
        altClose == At(lines, LAMBDA l : IsClosing(l, "alt-boundary-"))
        mixedClose == At(lines, LAMBDA l : IsClosing(l, "mixed-boundary-"))
    IN  /\ OnePair(lines, "Content-Type: multipart/mixed; boundary=", "mixed-boundary-")
        /\ OnePair(lines, "Content-Type: multipart/alternative; boundary=", "alt-boundary-")
        /\ mixedClose[1] = Len(lines)
        /\ Len(plain) = 1 /\ Len(html) = 1
        /\ plain[1] < html[1] /\ html[1] < altClose[1]
        /\ IsDelimiter(lines[plain[1] - 1], "alt-boundary-")
        /\ IsDelimiter(lines[html[1] - 1], "alt-boundary-")
        /\ Len(parts) = Len(attachments)
        /\ \A k \in 1..Len(parts) :
              /\ altClose[1] < parts[k]
              /\ AttachmentPartAt(lines, parts[k], attachments[k])

MaxAddrLen == 7
MaxListLen == 3
MaxTextLen == 4

StringsOf(alphabet, n) == UNION {[1..k -> alphabet] : k \in 0..n}

AddrArgs == StringsOf({"a", "1", "@", ".", " "}, MaxAddrLen)
ListArgs == StringsOf({AddrA, AddrB, AddrBad, EmptyStr}, MaxListLen)
TextArgs == StringsOf({"a", " ", "<", ">", "&", "\"", "'"}, MaxTextLen)

InitFn ==
    /\ sender = NewSmtpEmailSender("127.0.0.1", 465, "user", "password", AUTH_PLAIN)
    /\ call = [c \in Calls |-> IdleCall]
    /\ client = [c \in Calls |-> NoClient]
    /\ wire = [c \in Calls |-> << >>]
    /\ emails = [i \in EmailIds |-> NilMessage]
    /\ heap = CallerHeap
    /\ \E kind \in {"address", "list", "text"} :
          \E arg \in (CASE kind = "address" -> AddrArgs
                        [] kind = "list" -> ListArgs
                        [] kind = "text" -> TextArgs) :
              caller = [op |-> "none", kind |-> kind, arg |-> arg]

\* the function returned result for the argument; the caller then calls it
\* on the result, and on the argument with a space on either side
Returned(op, kind, result, again, padded) ==
    /\ caller.op = "none" /\ caller.kind = kind
    /\ caller' = [op |-> op, kind |-> kind, arg |-> caller.arg,
                  result |-> result, again |-> again, padded |-> padded]
    /\ UNCHANGED <<emails, heap, smtpVars>>

CallValidateEmail ==
    Returned("ValidateEmail", "address", ValidateEmail(caller.arg),
             ValidateEmail(ValidateEmail(caller.arg)),
             ValidateEmail(<<" ">> \o caller.arg \o <<" ">>))

CallValidateEmailSlice ==
    Returned("ValidateEmailSlice", "list", ValidateEmailSlice(caller.arg),
             ValidateEmailSlice(ValidateEmailSlice(caller.arg)),
             ValidateEmailSlice([k \in 1..Len(caller.arg) |->
                                    <<" ">> \o caller.arg[k] \o <<" ">>]))

CallSanitize ==
    Returned("Sanitize", "text", DefaultTextSanitize(caller.arg),
             DefaultTextSanitize(DefaultTextSanitize(caller.arg)),
             DefaultTextSanitize(<<" ">> \o caller.arg \o <<" ">>))

NextFn == CallValidateEmail \/ CallValidateEmailSlice \/ CallSanitize

SpecFn == InitFn /\ [][NextFn]_vars

(***************************************************************************)
(* C22.  ValidateEmail returns the argument without its surrounding        *)
(* whitespace when that is local-part@domain.tld: one "@", before it one   *)
(* or more of the characters of a local part, after it labels of domain    *)
(* characters separated by dots, the last label of two or more letters and *)
(* something before it; otherwise it returns the empty string.  So a valid *)
(* address with a space on either side gives the address, validating the   *)
(* result again gives the result, and an argument without "@", without a   *)
(* final label or with nothing before the "@" gives the empty string.      *)
(***************************************************************************)
All(str, chars) == \A k \in 1..Len(str) : str[k] \in chars

LocalAtDomainTld(str) ==
    LET parts == Split(str, "@")
        labels == Split(parts[2], ".")
        tld == labels[Len(labels)]
    IN  /\ Len(parts) = 2
        /\ parts[1] # EmptyStr /\ All(parts[1], LocalChars)
        /\ Len(labels) >= 2
        /\ Len(tld) >= 2 /\ All(tld, Letter)
        /\ Len(parts[2]) > Len(tld) + 1
        /\ All(parts[2], DomainChars)

Validated == caller.op = "ValidateEmail"

C22_ValidateEmail ==
    Validated =>
        LET a == caller.arg
            trimmed == TrimSpace(a)
        IN  /\ caller.result = IF LocalAtDomainTld(trimmed) THEN trimmed ELSE EmptyStr
            /\ LocalAtDomainTld(a) => caller.padded = a
            /\ caller.again = caller.result
            /\ (\A k \in 1..Len(a) : a[k] # "@") => caller.result = EmptyStr
            /\ (\A k \in 1..Len(a) : a[k] # ".") => caller.result = EmptyStr
            /\ (trimmed # EmptyStr /\ trimmed[1] = "@") => caller.result = EmptyStr

C22_Witness ==
    /\ Validated
    /\ caller.arg # caller.result /\ caller.result # EmptyStr
    /\ caller.padded = caller.result

(***************************************************************************)
(* C22, second case reached: a valid address, returned as it is.           *)
(***************************************************************************)
C22_ValidReached ==
    /\ Validated
    /\ LocalAtDomainTld(caller.arg) /\ caller.padded = caller.arg

(***************************************************************************)
(* C23.  ValidateEmailSlice, and with it GetTo, GetCC and GetBCC, returns  *)
(* the elements of the list that ValidateEmail accepts, each as            *)
(* ValidateEmail returns it, in the order of the list and as often as they *)
(* occur; the result is empty when there is none.                          *)
(***************************************************************************)
ValidSubsequence(list) ==
    SelectSeq([k \in 1..Len(list) |-> ValidateEmail(list[k])], LAMBDA a : a # EmptyStr)

ValidatedSlice == caller.op = "ValidateEmailSlice"

C23_ValidateEmailSlice ==
    ValidatedSlice =>
        LET list == caller.arg IN
        /\ caller.result = ValidSubsequence(list)
        /\ GetTo([ZeroEmailMessage EXCEPT !.to = list]) = caller.result
        /\ GetCC([ZeroEmailMessage EXCEPT !.cc = list]) = caller.result
        /\ GetBCC([ZeroEmailMessage EXCEPT !.bcc = list]) = caller.result
        /\ (\A k \in 1..Len(list) : ValidateEmail(list[k]) = EmptyStr) =>
              caller.result = << >>

C23_Witness ==
    /\ ValidatedSlice
    /\ Len(caller.arg) = 3 /\ Len(caller.result) = 2
    /\ caller.result[1] = caller.result[2]
    /\ caller.arg[1] # caller.arg[3]

(***************************************************************************)
(* C24.  The default text sanitizer returns its argument without the       *)
(* whitespace at its two ends and with every <, >, &, " and ' replaced by  *)
(* its entity.  What it returns, and so what GetSubject and GetText of a   *)
(* message without custom text sanitizer and GetFilename return, holds no  *)
(* <, > or ", and every & in it starts an entity.                          *)
(***************************************************************************)
Entity ==
    [ch \in {"<", ">", "&", "\"", "'"} |->
        CASE ch = "<" -> <<"&", "l", "t", ";">>
          [] ch = ">" -> <<"&", "g", "t", ";">>
          [] ch = "&" -> <<"&", "a", "m", "p", ";">>
          [] ch = "\"" -> <<"&", "#", "3", "4", ";">>
          [] ch = "'" -> <<"&", "#", "3", "9", ";">>]

Entities == {Entity[ch] : ch \in DOMAIN Entity}

\* the part of a string between its first and its last character that is
\* no whitespace
Core(str) ==
    LET solid == {k \in 1..Len(str) : str[k] \notin Space} IN
    IF solid = {} THEN << >>
    ELSE SubSeq(str, CHOOSE k \in solid : \A j \in solid : k <= j,
                     CHOOSE k \in solid : \A j \in solid : j <= k)

Replaced(str) ==
    Flatten([k \in 1..Len(str) |->
                IF str[k] \in DOMAIN Entity THEN Entity[str[k]] ELSE <<str[k]>>])

StartsEntity(str, p) ==
    \E ent \in Entities : p + Len(ent) - 1 <= Len(str) /\ SubSeq(str, p, p + Len(ent) - 1) = ent

Sanitized == caller.op = "Sanitize"

C24_DefaultTextSanitizer ==
    Sanitized =>
        LET out == caller.result IN
        /\ out = Replaced(Core(caller.arg))
        /\ GetSubject([ZeroEmailMessage EXCEPT !.subject = caller.arg]) = out
        /\ GetText([ZeroEmailMessage EXCEPT !.text = caller.arg]) = out
        /\ GetFilename(Attachment(caller.arg, << >>)) = out
        /\ \A p \in 1..Len(out) :
              /\ out[p] \notin {"<", ">", "\""}
              /\ out[p] = "&" => StartsEntity(out, p)

C24_Witness ==
    /\ Sanitized
    /\ caller.arg = <<" ", "<", "\"", "&">>
    /\ Len(caller.result) = 14

(***************************************************************************)
(* encoding/json as the two custom marshalers use it.  A JSON text is kept *)
(* as the object it spells: its keys, each with its value as written, a    *)
(* string being the sequence of the characters and escapes between the     *)
(* quotes.  A nil list and an empty list are not told apart.               *)
(***************************************************************************)
\* a byte that is no UTF-8, and the character U+FFFD
InvalidByte == "0xFF"
ReplacementChar == "U+FFFD"

\* json.Marshal of one character of a string
JsonChar(ch) ==
    CASE ch = "\"" -> "\\\""
      [] ch = "\\" -> "\\\\"
      [] ch = "\n" -> "\\n"
      [] ch = "\r" -> "\\r"
      [] ch = "\t" -> "\\t"
      [] ch = "<" -> "\\u003c"
      [] ch = ">" -> "\\u003e"
      [] ch = "&" -> "\\u0026"
      [] ch = InvalidByte -> "\\ufffd"
      [] OTHER -> ch

JsonString(str) == [k \in 1..Len(str) |-> JsonChar(str[k])]

\* json.Unmarshal of one character or escape of a string
JsonUnquoteChar(ch) ==
    CASE ch = "\\\"" -> "\""
      [] ch = "\\\\" -> "\\"
      [] ch = "\\n" -> "\n"
      [] ch = "\\r" -> "\r"
      [] ch = "\\t" -> "\t"
      [] ch = "\\u003c" -> "<"
      [] ch = "\\u003e" -> ">"
      [] ch = "\\u0026" -> "&"
      [] ch = "\\ufffd" -> ReplacementChar
      [] ch = InvalidByte -> ReplacementChar
      [] OTHER -> ch

JsonUnquote(str) == [k \in 1..Len(str) |-> JsonUnquoteChar(str[k])]

\* Attachment.MarshalJSON, lines 170-175
AttachmentMarshalJSON(a) ==
    [filename |-> JsonString(a.filename),
     content |-> JsonString(Base64Encode(a.content))]

\* a marshaler that writes what the read accessors return
MarshalJSONSanitized(e) ==
    LET keys == {"from", "to", "subject", "text"}
                \cup (IF e.cc # << >> THEN {"cc"} ELSE {})
                \cup (IF e.bcc # << >> THEN {"bcc"} ELSE {})
                \cup (IF e.replyTo # EmptyStr THEN {"replyTo"} ELSE {})
                \cup (IF e.html # EmptyStr THEN {"html"} ELSE {})
                \cup (IF e.attachments # << >> THEN {"attachments"} ELSE {})
    IN  [key \in keys |->
            CASE key = "from" -> JsonString(GetFrom(e))
              [] key = "to" -> [k \in 1..Len(GetTo(e)) |-> JsonString(GetTo(e)[k])]
              [] key = "cc" -> [k \in 1..Len(GetCC(e)) |-> JsonString(GetCC(e)[k])]
              [] key = "bcc" -> [k \in 1..Len(GetBCC(e)) |-> JsonString(GetBCC(e)[k])]
              [] key = "replyTo" -> JsonString(GetReplyTo(e))
              [] key = "subject" -> JsonString(GetSubject(e))
              [] key = "text" -> JsonString(GetText(e))
              [] key = "html" -> JsonString(GetHTML(e))
              [] key = "attachments" ->
                    [k \in 1..Len(e.attachments) |-> AttachmentMarshalJSON(e.attachments[k])]]

\* EmailMessage.MarshalJSON, lines 492-504: the stored fields; the keys
\* tagged omitempty are left out when the field is empty
MarshalJSON(e) ==
    LET keys == {"from", "to", "subject", "text"}
                \cup (IF e.cc # << >> THEN {"cc"} ELSE {})
                \cup (IF e.bcc # << >> THEN {"bcc"} ELSE {})
                \cup (IF e.replyTo # EmptyStr THEN {"replyTo"} ELSE {})
                \cup (IF e.html # EmptyStr THEN {"html"} ELSE {})
                \cup (IF e.attachments # << >> THEN {"attachments"} ELSE {})
    IN  [key \in keys |->
            CASE key = "from" -> JsonString(e.from)
              [] key = "to" -> [k \in 1..Len(e.to) |-> JsonString(e.to[k])]
              [] key = "cc" -> [k \in 1..Len(e.cc) |-> JsonString(e.cc[k])]
              [] key = "bcc" -> [k \in 1..Len(e.bcc) |-> JsonString(e.bcc[k])]
              [] key = "replyTo" -> JsonString(e.replyTo)
              [] key = "subject" -> JsonString(e.subject)
              [] key = "text" -> JsonString(e.text)
              [] key = "html" -> JsonString(e.html)
              [] key = "attachments" ->
                    [k \in 1..Len(e.attachments) |-> AttachmentMarshalJSON(e.attachments[k])]]

\* a text that is no JSON
NotJson == [error |-> <<"i", "n", "v", "a", "l", "i", "d">>]

StringAt(doc, key) == IF key \in DOMAIN doc THEN JsonUnquote(doc[key]) ELSE EmptyStr
ListAt(doc, key) ==
    IF key \in DOMAIN doc THEN [k \in 1..Len(doc[key]) |-> JsonUnquote(doc[key][k])]
    ELSE << >>

\* json.Unmarshal(data, aux) of EmailMessage.UnmarshalJSON, before the
\* attachments are decoded: absent keys leave the zero value
ParseJson(doc) ==
    IF "error" \in DOMAIN doc THEN Malformed
    ELSE jsonEmailMessage(StringAt(doc, "from"), ListAt(doc, "to"), ListAt(doc, "cc"),
                          ListAt(doc, "bcc"), StringAt(doc, "replyTo"),
                          StringAt(doc, "subject"), StringAt(doc, "text"),
                          StringAt(doc, "html"),
                          IF "attachments" \in DOMAIN doc
                          THEN [k \in 1..Len(doc["attachments"]) |->
                                  jsonAttachment(StringAt(doc["attachments"][k], "filename"),
                                                 StringAt(doc["attachments"][k], "content"))]
                          ELSE << >>)

(***************************************************************************)
(* JSON in the hands of a caller: it holds message 1, made with            *)
(* NewFullEmailMessage, and message 2, declared as var email EmailMessage; *)
(* it marshals a message, or receives a JSON text from elsewhere, and      *)
(* unmarshals the text it holds into a message or into an attachment.      *)
(***************************************************************************)
SubjectQuote == <<"\"", "\\", "a">>
SubjectBytes == <<"a", InvalidByte>>
HtmlBold == <<"<", "b", ">", "x">>
BadContent == <<"!", "!", "!", "!">>

\* the fields tagged omitempty are all empty or all set
JsonMessages ==
    {[isNil |-> FALSE, from |-> AddrB, to |-> to,
      cc |-> IF optional THEN <<AddrB>> ELSE << >>, bcc |-> << >>,
      replyTo |-> IF optional THEN AddrBad ELSE EmptyStr,
      subject |-> subject, text |-> text,
      html |-> IF optional THEN HtmlBold ELSE EmptyStr,
      attachments |-> attachments, maxAttachmentSize |-> DefaultMaxAttachmentSize,
      textSanitizer |-> "nil", htmlSanitizer |-> "nil"] :
        to \in {<< >>, <<AddrA, AddrBad>>}, optional \in BOOLEAN,
        subject \in {SubjectEsc, SubjectInject, SubjectQuote, SubjectBytes},
        text \in {EmptyStr, TextLf}, attachments \in CallerSlices}

\* the texts the caller receives from elsewhere
ReceivedDocs ==
    {NotJson,
     [from |-> JsonString(AddrFrom)],
     [from |-> JsonString(AddrFrom),
      attachments |-> << [filename |-> JsonString(NameTxt), content |-> BadContent] >>]}

ReceivedAttachments ==
    {Malformed,
     jsonAttachment(NameLf, <<"S", "G", "k", "=">>),
     jsonAttachment(NameLf, BadContent)}

NoJson == [none |-> << >>]

InitJson ==
    /\ sender = NewSmtpEmailSender("127.0.0.1", 465, "user", "password", AUTH_PLAIN)
    /\ call = [c \in Calls |-> IdleCall]
    /\ client = [c \in Calls |-> NoClient]
    /\ wire = [c \in Calls |-> << >>]
    /\ heap = CallerHeap
    /\ \E e \in JsonMessages :
          /\ emails = [i \in EmailIds |-> IF i = 1 THEN e ELSE ZeroEmailMessage]
          /\ caller = [op |-> "none", on |-> 0, writes |-> 0,
                       raw |-> [i \in EmailIds |->
                                  Stored(CallerHeap, IF i = 1 THEN e ELSE ZeroEmailMessage)],
                       last |-> NoRead, got |-> NilSlice, json |-> NoJson]

\* json.Marshal(&emails[i])
Marshal(i) ==
    LET doc == MarshalJSON(View(heap, emails[i])) IN
    /\ ~emails[i].isNil
    /\ caller' = [caller EXCEPT !.op = "MarshalJSON", !.on = i, !.json = doc,
                     !.last = [email |-> i, acc |-> "MarshalJSON", result |-> doc]]
    /\ UNCHANGED <<emails, heap, smtpVars>>

Receive(doc) ==
    /\ caller.json # doc
    /\ caller' = [caller EXCEPT !.op = "received", !.on = 0, !.json = doc, !.last = NoRead]
    /\ UNCHANGED <<emails, heap, smtpVars>>

\* json.Unmarshal(text, &emails[i])
Unmarshal(i) ==
    /\ caller.json # NoJson
    /\ UnmarshalJSON(i, ParseJson(caller.json))

\* Attachment.UnmarshalJSON (lines 196-210) on &attachments[k]: the filename
\* is assigned before the content is decoded
AttachmentUnmarshalJSON(s, k, aux) ==
    /\ s \in Held /\ k \in 1..s.len
    /\ IF aux = Malformed
       THEN Did("Attachment.UnmarshalJSON", heap)
       ELSE LET named == [heap EXCEPT !.arrays[s.arr][k].filename = aux.Filename]
                content == Base64Decode(aux.Content)
            IN  IF ~content.ok
                THEN Did("Attachment.UnmarshalJSON", named)
                ELSE Did("Attachment.UnmarshalJSON",
                         [named EXCEPT !.buffers = Append(@, content.bytes),
                                       !.arrays[s.arr][k].content = Len(heap.buffers) + 1])

NextJson ==
    \/ \E i \in EmailIds : Marshal(i)
    \/ \E doc \in ReceivedDocs : Receive(doc)
    \/ \E i \in EmailIds : Unmarshal(i)
    \/ \E k \in 1..2, aux \in ReceivedAttachments :
          AttachmentUnmarshalJSON(Slice(1, 2), k, aux)

SpecJson == InitJson /\ [][NextJson]_vars

(***************************************************************************)
(* C25, as stated.  A message unmarshalled from what MarshalJSON wrote for *)
(* message 1 holds the raw from, to, cc, bcc, replyTo, subject, text, html *)
(* and attachments of message 1; what MarshalJSON wrote spells the raw     *)
(* stored values; and marshalling the unmarshalled message gives the same  *)
(* JSON.                                                                   *)
(***************************************************************************)
\* the last call unmarshalled into message i the JSON written for message 1
RoundTripped(i) ==
    /\ caller.op = "UnmarshalJSON" /\ caller.on = i /\ i # 1
    /\ caller.json = MarshalJSON(View(heap, emails[1]))

SameRaw(i) == Values(Stored(heap, emails[i])) = Values(Stored(heap, emails[1]))

Marshalled(i) == caller.op = "MarshalJSON" /\ caller.on = i

WritesRaw(i) ==
    LET data == ParseJson(caller.json)
        e == View(heap, emails[i])
    IN  /\ data.From = e.from /\ data.To = e.to /\ data.CC = e.cc /\ data.BCC = e.bcc
        /\ data.ReplyTo = e.replyTo /\ data.Subject = e.subject
        /\ data.Text = e.text /\ data.HTML = e.html
        /\ Len(data.Attachments) = Len(e.attachments)
        /\ \A k \in 1..Len(e.attachments) :
              /\ data.Attachments[k].Filename = e.attachments[k].filename
              /\ Base64Decode(data.Attachments[k].Content).bytes = e.attachments[k].content

\* this step marshals message i
MarshalsAgain(i) ==
    (caller'.op = "MarshalJSON" /\ caller'.on = i) => caller'.json = caller.json

C25_JsonRoundTrip ==
    /\ [](\A i \in EmailIds :
            /\ RoundTripped(i) => SameRaw(i)
            /\ Marshalled(i) => WritesRaw(i))
    /\ [][\A i \in EmailIds : RoundTripped(i) => MarshalsAgain(i)]_vars

(***************************************************************************)
(* C25, amended.  The same for every message whose strings are valid       *)
(* UTF-8: json.Marshal writes the escape of U+FFFD for every byte of a     *)
(* string that is not, the unmarshalled message holds U+FFFD in its place, *)
(* and marshalled again U+FFFD is written as it is, not as the escape.     *)
(***************************************************************************)
ValidUtf8(str) == \A k \in 1..Len(str) : str[k] # InvalidByte

AllValidUtf8(e) ==
    /\ ValidUtf8(e.from) /\ ValidUtf8(e.replyTo)
    /\ ValidUtf8(e.subject) /\ ValidUtf8(e.text) /\ ValidUtf8(e.html)
    /\ \A k \in 1..Len(e.to) : ValidUtf8(e.to[k])
    /\ \A k \in 1..Len(e.cc) : ValidUtf8(e.cc[k])
    /\ \A k \in 1..Len(e.bcc) : ValidUtf8(e.bcc[k])
    /\ \A k \in 1..e.attachments.len :
          ValidUtf8(heap.arrays[e.attachments.arr][k].filename)

C25_JsonRoundTripOfUtf8 ==
    /\ [](\A i \in EmailIds :
            /\ (RoundTripped(i) /\ AllValidUtf8(emails[1])) => SameRaw(i)
            /\ (Marshalled(i) /\ AllValidUtf8(emails[i])) => WritesRaw(i))
    /\ [][\A i \in EmailIds :
             (RoundTripped(i) /\ AllValidUtf8(emails[1])) => MarshalsAgain(i)]_vars

C25_Witness ==
    /\ RoundTripped(2) /\ SameRaw(2)
    /\ emails[1].subject = SubjectEsc /\ emails[1].replyTo = AddrBad
    /\ emails[1].attachments = Slice(1, 2)
    /\ emails[2].attachments # emails[1].attachments

(***************************************************************************)
(* C30.  An UnmarshalJSON that returns an error leaves its receiver as it  *)
(* was: a failed EmailMessage.UnmarshalJSON changes no field of the        *)
(* message, the attachment size limit included, and a failed               *)
(* Attachment.UnmarshalJSON changes neither the filename nor the content   *)
(* of the attachment.                                                      *)
(***************************************************************************)
\* json.Unmarshal of the text the caller holds returns an error
EmailFails ==
    LET data == ParseJson(caller.json) IN
    ~data.ok \/ \E k \in 1..Len(data.Attachments) : ~DecodeAll(data.Attachments)[k].ok

\* Attachment.UnmarshalJSON returns an error for aux
AttachmentFails(aux) == aux = Malformed \/ ~Base64Decode(aux.Content).ok

\* the step is a failed EmailMessage.UnmarshalJSON on message i
FailedEmailUnmarshal(i) == EmailFails /\ Unmarshal(i)

\* the step is a failed Attachment.UnmarshalJSON on attachments[k]
FailedAttachmentUnmarshal(k, aux) ==
    AttachmentFails(aux) /\ AttachmentUnmarshalJSON(Slice(1, 2), k, aux)

\* C30: a failed UnmarshalJSON changes neither the message nor the attachment
C30_FailedUnmarshalChangesNothing ==
    /\ [][\A i \in EmailIds :
             FailedEmailUnmarshal(i) =>
                /\ emails'[i] = emails[i]
                /\ View(heap', emails'[i]) = View(heap, emails[i])]_vars
    /\ [][\A k \in 1..2, aux \in ReceivedAttachments :
             FailedAttachmentUnmarshal(k, aux) =>
                /\ heap'.arrays[1][k].filename = heap.arrays[1][k].filename
                /\ heap'.buffers[heap'.arrays[1][k].content]
                     = heap.buffers[heap.arrays[1][k].content]]_vars

\* the part of C30 about the message alone
C30_FailedEmailUnmarshal ==
    [][\A i \in EmailIds :
          FailedEmailUnmarshal(i) =>
             /\ emails'[i] = emails[i]
             /\ View(heap', emails'[i]) = View(heap, emails[i])]_vars

(***************************************************************************)
(* C26.  The headers BuildMimeMessage writes are, in this order, From, To, *)
(* Cc, Reply-To, Subject, MIME-Version: 1.0 and Content-Type, each at most *)
(* once: To and Cc exactly when the validated list is not empty, holding   *)
(* its addresses in list order with commas between, Reply-To exactly when  *)
(* the validated reply-to address is not empty.                            *)
(***************************************************************************)
HeaderOrder ==
    <<"From: ", "To: ", "Cc: ", "Reply-To: ", "Subject: ", "MIME-Version: 1.0", "Content-Type">>

\* the name of a written header line
HeaderName(line) ==
    IF Head(line) \in {"Content-Type: multipart/mixed; boundary=",
                       "Content-Type: multipart/alternative; boundary="}
    THEN "Content-Type" ELSE Head(line)

\* where a header name stands in the order, 0 for any other line
OrderOf(name) ==
    IF \E p \in 1..Len(HeaderOrder) : HeaderOrder[p] = name
    THEN CHOOSE p \in 1..Len(HeaderOrder) : HeaderOrder[p] = name
    ELSE 0

\* the written header lines with this name
LinesNamed(hdr, name) == {k \in 1..Len(hdr) : HeaderName(hdr[k]) = name}

\* a header holds this list, comma-separated
HoldsList(hdr, name, list) ==
    IF list = << >> THEN LinesNamed(hdr, name) = {}
    ELSE \E k \in 1..Len(hdr) :
            /\ LinesNamed(hdr, name) = {k}
            /\ Split(Tail(hdr[k]), ",") = list

HeadersInOrder(lines, m) ==
    LET hdr == HeaderSection(lines) IN
    /\ \A k \in 1..Len(hdr) : OrderOf(HeaderName(hdr[k])) > 0
    /\ \A j, k \in 1..Len(hdr) :
          j < k => OrderOf(HeaderName(hdr[j])) < OrderOf(HeaderName(hdr[k]))
    /\ \A name \in {"From: ", "Subject: ", "MIME-Version: 1.0", "Content-Type"} :
          Cardinality(LinesNamed(hdr, name)) = 1
    /\ HoldsList(hdr, "To: ", GetTo(m))
    /\ HoldsList(hdr, "Cc: ", GetCC(m))
    /\ IF GetReplyTo(m) = EmptyStr THEN LinesNamed(hdr, "Reply-To: ") = {}
       ELSE \E k \in 1..Len(hdr) :
               LinesNamed(hdr, "Reply-To: ") = {k} /\ Tail(hdr[k]) = GetReplyTo(m)

\* C26: the header lines written, their order and their presence
C26_HeaderOrder == Built => HeadersInOrder(BuiltLines, BuiltFrom)

\* all seven headers were written, To with two addresses
C26_Witness ==
    /\ Built
    /\ HeadersInOrder(BuiltLines, BuiltFrom)
    /\ Len(HeaderSection(BuiltLines)) = 7
    /\ Len(GetTo(BuiltFrom)) = 2
    /\ Len(BuiltFrom.to) = 2

\* a message with no valid recipient and no reply-to address was written
C26_NoOptionalHeaders ==
    /\ Built
    /\ ~BuiltFrom.isNil
    /\ Len(HeaderSection(BuiltLines)) = 4
    /\ BuiltFrom.to # << >>

(***************************************************************************)
(* C27.  In the multipart/alternative section BuildMimeMessage writes      *)
(* there is a text/plain part exactly when the sanitized text is not       *)
(* empty and a text/html part exactly when the sanitized HTML is not       *)
(* empty, text/plain before text/html; the closing delimiter of the        *)
(* alternative boundary is written exactly once, right after the last      *)
(* part, and right after the empty line of the declaration when there is   *)
(* no part.                                                                *)
(***************************************************************************)
\* the lines that are the part of this type with this body, behind delimiter open
PartsAt(lines, open, type, body) ==
    {k \in 1..(Len(lines) - 3) :
        /\ lines[k] = open
        /\ lines[k + 1] = <<type>>
        /\ lines[k + 2] = << >>
        /\ lines[k + 3] = body}

AlternativeSection(lines, m) ==
    LET declared == {k \in 1..Len(lines) :
                        Starts(lines[k], "Content-Type: multipart/alternative; boundary=")}
    IN  \E d \in declared :
          LET open == <<"--">> \o Tail(lines[d])
              close == open \o <<"--">>
              opened == {k \in 1..Len(lines) : lines[k] = open}
              closed == {k \in 1..Len(lines) : lines[k] = close}
              plain == PartsAt(lines, open, "Content-Type: text/plain; charset=UTF-8", GetText(m))
              html == PartsAt(lines, open, "Content-Type: text/html; charset=UTF-8", GetHTML(m))
              parts == Cardinality(opened)
          IN  /\ declared = {d}
              /\ lines[d + 1] = << >>
              /\ opened = plain \cup html
              /\ Cardinality(plain) = (IF GetText(m) # EmptyStr THEN 1 ELSE 0)
              /\ Cardinality(html) = (IF GetHTML(m) # EmptyStr THEN 1 ELSE 0)
              /\ \A p \in plain, h \in html : p < h
              /\ opened = {d + 2 + 4 * n : n \in 0..(parts - 1)}
              /\ closed = {d + 2 + 4 * parts}

\* C27: the parts of the alternative section and its closing delimiter
C27_AlternativeSection == Built => AlternativeSection(BuiltLines, BuiltFrom)

\* a message with a text and an HTML body was written
C27_Witness ==
    /\ Built
    /\ AlternativeSection(BuiltLines, BuiltFrom)
    /\ GetText(BuiltFrom) # EmptyStr
    /\ GetHTML(BuiltFrom) # EmptyStr

\* a message with neither body was written
C27_NoPart ==
    /\ Built
    /\ AlternativeSection(BuiltLines, BuiltFrom)
    /\ GetText(BuiltFrom) = EmptyStr
    /\ GetHTML(BuiltFrom) = EmptyStr
    /\ Len(GetAttachments(BuiltFrom)) > 0

(***************************************************************************)
(* C28.  SendEmail validates nothing of the message itself: for a nil      *)
(* message, a sender that is invalid or empty and a message with no valid  *)
(* recipient it returns no error of its own; it serializes the message,    *)
(* connects, authenticates, issues MAIL FROM with the validated sender,    *)
(* empty when there is none, one RCPT TO per valid recipient, none when    *)
(* there is none, and goes on to DATA.  An error it returns is a failed    *)
(* dial or TLS handshake, a lost connection, a negative reply of the       *)
(* server, or the refusal of the authentication mechanism to go on with    *)
(* what the server announced or sent.                                      *)
(***************************************************************************)
\* the errors of smtp.SendMail's guard and of Auth.Start / Auth.Next
AuthRefusals ==
    {LocalError("smtp: server doesn't support AUTH"),
     LocalError("unencrypted connection"),
     LocalError("wrong host name"),
     LocalError("illegal base64 data"),
     LocalError("unexpected server challenge")}

\* the message is one a validating sender would refuse
Unvalidated(m) == m.isNil \/ GetFrom(m) = EmptyStr \/ Envelope(m) = << >>

\* an AUTH exchange was accepted before position i
AuthenticatedBefore(w, i) ==
    \E j \in 1..(i - 1) :
        /\ w[j].dir = "C" /\ w[j].verb \in {"AUTH", "RESP"}
        /\ HasReply(w, j) /\ w[j + 1].code = 235

\* the server announced no extension at all: it answered HELO only
HeloOnly(w, i) == \E j \in 1..(i - 1) : IsCmd(w[j], "HELO") /\ AcceptedAt(w, j)

NoLocalValidation(c) ==
    LET w == wire[c]
        m == call[c].message
    IN  /\ call[c].pc # "idle" =>
              /\ HeaderSection(call[c].msg) # << >>
              /\ Head(call[c].msg) = <<"From: ">> \o GetFrom(m)
              /\ call[c].sendMailTo = GetTo(m) \o GetCC(m) \o GetBCC(m)
        /\ call[c].ret.kind = "local" =>
              /\ call[c].ret \in AuthRefusals
              /\ \A i \in 1..Len(w) : ~IsCmd(w[i], "MAIL")
        /\ (call[c].pc = "done" /\ w = << >>) => call[c].ret.kind = "io"
        /\ \A i \in 1..Len(w) :
              IsCmd(w[i], "MAIL") =>
                  /\ w[i].arg = GetFrom(m)
                  /\ AuthenticatedBefore(w, i)
                        \/ (sender.connectionMethod # CONN_TLS /\ HeloOnly(w, i))
                  /\ (AcceptedAt(w, i) /\ call[c].sendMailTo = << >>) =>
                        call[c].pc = "data" \/ (i + 2 <= Len(w) /\ IsCmd(w[i + 2], "DATA"))
        /\ IsPrefix(Args(w, "RCPT"), call[c].sendMailTo)
        /\ DataIssued(w) => Len(Args(w, "RCPT")) = Len(call[c].sendMailTo)

C28_InvalidSender ==
    \E c \in Calls :
        /\ call[c].pc = "done" /\ call[c].ret = NoError
        /\ ~call[c].message.isNil
        /\ call[c].message.from = AddrBad
        /\ call[c].message.to = <<AddrBad>>
        /\ Args(wire[c], "RCPT") = << >>
        /\ DataIssued(wire[c])

(***************************************************************************)
(* C29.  Once the server has accepted the message data, what SendEmail     *)
(* returns is what QUIT returns: nil when the server answers 221, the      *)
(* server's reply when it answers anything else, the read error when the   *)
(* connection is lost before the reply, although every recipient and the   *)
(* message data were accepted.                                             *)
(***************************************************************************)
\* what Client.Quit returns for the QUIT at position j of the wire
QuitResult(w, j) ==
    IF HasReply(w, j) THEN CmdError(221, ReplyAt(w, j)) ELSE IoError("EOF")

\* the end of data at position i was accepted
DataAccepted(w, i) == IsCmd(w[i], "EOD") /\ AcceptedAt(w, i)

\* C29: after the accepted end of data only QUIT follows, and its result
\* is the result of the call
C29_ResultIsQuit ==
    \A c \in Calls :
        LET w == wire[c] IN
        \A i \in 1..Len(w) :
            DataAccepted(w, i) =>
                \/ call[c].pc = "quit" /\ Len(w) = i + 1
                \/ /\ call[c].pc = "done"
                   /\ Len(w) >= i + 3
                   /\ IsCmd(w[i + 2], "QUIT")
                   /\ \A j \in (i + 3)..Len(w) : w[j].dir = "S" \/ w[j].verb = "CLOSE"
                   /\ call[c].ret = QuitResult(w, i + 2)

\* two recipients and the data were accepted, the server refused QUIT and
\* SendEmail returned its reply
C29_Witness ==
    \E c \in Calls :
        LET w == wire[c] IN
        /\ call[c].pc = "done"
        /\ Len(call[c].sendMailTo) = 2
        /\ \A k \in 1..Len(w) : IsCmd(w[k], "RCPT") => AcceptedAt(w, k)
        /\ \E i \in 1..Len(w) :
              /\ DataAccepted(w, i)
              /\ RejectedAt(w, i + 2)
              /\ call[c].ret = ReplyError(NegReply("QUIT"))

\* the connection was lost before the reply to QUIT
C29_QuitLost ==
    \E c \in Calls :
        LET w == wire[c] IN
        /\ call[c].pc = "done"
        /\ \E i \in 1..Len(w) :
              /\ DataAccepted(w, i)
              /\ ~HasReply(w, i + 2)
              /\ call[c].ret = IoError("EOF")

\* QUIT was answered with 221 and SendEmail returned nil
C29_Delivered ==
    \E c \in Calls :
        LET w == wire[c] IN
        /\ call[c].pc = "done" /\ call[c].ret = NoError
        /\ \E i \in 1..Len(w) : DataAccepted(w, i) /\ AcceptedAt(w, i + 2)

====
